---------------------------- MODULE Spec2Model ----------------------------
(***************************************************************************)
(* Model of the muay-thai-coach technique-analysis core:                   *)
(*   - the pose metrics (src/unnamed/part_003, "Pose Metrics Calculations")*)
(*   - the scoring engine and feedback rules (src/src/lib/pose/scoring.ts) *)
(*   - the calibration state machine of CalibrationPhase                   *)
(*     (src/src/components/StickAvatar.tsx, lines 413-846)                 *)
(*                                                                         *)
(* Numbers.  Landmark coordinates and visibilities are integers in units   *)
(* of 1/100 of the normalised image space (0.10 is 10).  Quantities the    *)
(* code computes as floating-point quotients are kept as exact rationals   *)
(* <<num, den>> with den > 0, so every comparison against a threshold is   *)
(* the comparison the code makes, up to floating-point rounding.           *)
(***************************************************************************)
EXTENDS Integers, Sequences, FiniteSets, TLC

(***************************************************************************)
(* Bounds of the model (not program constants).                            *)
(***************************************************************************)
MaxFrames == 6
MaxRuns == 2
MaxSamples == 14
MaxMoves == 2
MaxNow == 3
MaxCycles == 1
MaxAppends == 3
MaxLongFrames == 41

(***************************************************************************)
(* Exact arithmetic helpers.                                               *)
(***************************************************************************)
Abs(i) == IF i < 0 THEN -i ELSE i

Min(a, b) == IF a < b THEN a ELSE b

Max(a, b) == IF a > b THEN a ELSE b

RECURSIVE GCD(_, _)
GCD(a, b) == IF b = 0 THEN a ELSE GCD(b, a % b)

\* a rational num/den in lowest terms, den > 0
Rat(n, d) ==
    LET g == GCD(Abs(n), d)
    IN  <<n \div g, d \div g>>

RInt(i) == <<i, 1>>

RAdd(a, b) == Rat(a[1] * b[2] + b[1] * a[2], a[2] * b[2])

RLt(a, b) == a[1] * b[2] < b[1] * a[2]

RLe(a, b) == a[1] * b[2] <= b[1] * a[2]

RMin(a, b) == IF RLt(a, b) THEN a ELSE b

RMax(a, b) == IF RLt(a, b) THEN b ELSE a

\* Math.round: the nearest integer, halves rounded towards +infinity
MathRound(a) == (2 * a[1] + a[2]) \div (2 * a[2])

RECURSIVE SumSeq(_)
SumSeq(s) == IF s = <<>> THEN 0 ELSE Head(s) + SumSeq(Tail(s))

RECURSIVE ISqrtBetween(_, _, _)
ISqrtBetween(n, lo, hi) ==
    IF lo = hi THEN lo
    ELSE LET mid == (lo + hi + 1) \div 2
         IN  IF mid * mid <= n THEN ISqrtBetween(n, mid, hi)
                               ELSE ISqrtBetween(n, lo, mid - 1)

\* Math.sqrt on the 1/100 grid: exact on perfect squares, the floor otherwise
Sqrt(n) == ISqrtBetween(n, 0, Min(n, 46340))

(***************************************************************************)
(* Landmarks.  LANDMARK_INDICES of the pose module.                        *)
(***************************************************************************)
NOSE == 0
LEFT_SHOULDER == 11
RIGHT_SHOULDER == 12
LEFT_ELBOW == 13
RIGHT_ELBOW == 14
LEFT_WRIST == 15
RIGHT_WRIST == 16
LEFT_HIP == 23
RIGHT_HIP == 24
LEFT_KNEE == 25
RIGHT_KNEE == 26
LEFT_ANKLE == 27
RIGHT_ANKLE == 28
NUM_LANDMARKS == 33

LM(x, y, z, v) == [x |-> x, y |-> y, z |-> z, visibility |-> v]

(***************************************************************************)
(* The input poses: complete 33-landmark frames as the external landmark   *)
(* detector would deliver them.  BasePose is a front view in full guard.   *)
(***************************************************************************)
BasePose ==
    [i \in 0..(NUM_LANDMARKS - 1) |->
        CASE i = NOSE           -> LM(50, 20, 0, 90)
          [] i = LEFT_SHOULDER  -> LM(60, 35, 0, 90)
          [] i = RIGHT_SHOULDER -> LM(40, 35, 0, 90)
          [] i = LEFT_ELBOW     -> LM(65, 50, 0, 90)
          [] i = RIGHT_ELBOW    -> LM(35, 50, 0, 90)
          [] i = LEFT_WRIST     -> LM(56, 18, 0, 90)
          [] i = RIGHT_WRIST    -> LM(44, 18, 0, 90)
          [] i = LEFT_HIP       -> LM(57, 60, 0, 90)
          [] i = RIGHT_HIP      -> LM(43, 60, 0, 90)
          [] i = LEFT_KNEE      -> LM(57, 78, 0, 90)
          [] i = RIGHT_KNEE     -> LM(43, 78, 0, 90)
          [] i = LEFT_ANKLE     -> LM(57, 95, 0, 90)
          [] i = RIGHT_ANKLE    -> LM(43, 95, 0, 90)
          [] i \in 1..10        -> LM(50, 19, 0, 90)
          [] i \in 17..22       -> LM(50, 17, 0, 90)
          [] OTHER              -> LM(50, 97, 0, 90)]

\* the pose with landmark i put at (x, y)
Put(pose, i, x, y) == [pose EXCEPT ![i] = LM(x, y, pose[i].z, pose[i].visibility)]

\* the whole body moved sideways by dx
Shift(pose, dx) ==
    [i \in DOMAIN pose |-> LM(pose[i].x + dx, pose[i].y, pose[i].z, pose[i].visibility)]

\* left arm straight out (elbow angle 180 degrees), right hand in guard
PunchPose == Put(Put(BasePose, LEFT_ELBOW, 75, 35), LEFT_WRIST, 90, 35)

\* left knee above the hip line, both hands in guard
KneePose == Put(BasePose, LEFT_KNEE, 57, 55)

\* both hands down at the hips
LowPose == Put(Put(BasePose, LEFT_WRIST, 62, 60), RIGHT_WRIST, 38, 60)

\* right hand down, left hand up but below the bare-hand optimal band
\* (inside the band with gloves)
HighPose == Put(Put(BasePose, LEFT_WRIST, 59, 27), RIGHT_WRIST, 38, 60)

\* turned sideways, 60/100 to the right, feet and hips out of sight
SidePose ==
    LET s == Shift(BasePose, 60)
        t == [s EXCEPT ![LEFT_SHOULDER] = LM(112, 35, 30, 90),
                       ![RIGHT_SHOULDER] = LM(108, 35, 0, 90)]
    IN  [i \in DOMAIN t |->
            IF i \in {LEFT_HIP, RIGHT_HIP, LEFT_ANKLE, RIGHT_ANKLE}
            THEN LM(t[i].x, t[i].y, t[i].z, 10) ELSE t[i]]

\* the left hand moved 3/100 sideways, everything else as in BasePose
NudgePose == Put(BasePose, LEFT_WRIST, 59, 18)

\* standing close to the camera: shoulders 60/100 apart instead of 20/100,
\* hands lower
WidePose ==
    Put(Put(Put(Put(BasePose, LEFT_SHOULDER, 80, 35), RIGHT_SHOULDER, 20, 35),
            LEFT_WRIST, 56, 24), RIGHT_WRIST, 44, 24)

\* the hips moved 10/100 sideways, everything else as in BasePose
SwayPose == Put(Put(BasePose, LEFT_HIP, 67, 60), RIGHT_HIP, 53, 60)

PoseIds == {"base", "punch", "knee", "low", "high", "side", "nudge"}

\* folded forward towards the camera: the hips at the height of the shoulders,
\* so that the shoulder midpoint and the hip midpoint coincide
FoldedPose == Put(Put(BasePose, LEFT_HIP, 57, 35), RIGHT_HIP, 43, 35)

\* the poses a person takes in front of the camera while calibrating
CalPoseIds == {"base", "wide"}

\* standing, and folded forward with a torso of length zero
TorsoPoseIds == {"base", "folded"}

PoseOf(id) ==
    CASE id = "base"  -> BasePose
      [] id = "punch" -> PunchPose
      [] id = "knee"  -> KneePose
      [] id = "low"   -> LowPose
      [] id = "high"  -> HighPose
      [] id = "side"  -> SidePose
      [] id = "nudge" -> NudgePose
      [] id = "wide"  -> WidePose
      [] id = "sway"  -> SwayPose
      [] id = "folded" -> FoldedPose

(***************************************************************************)
(* Pose metrics.                                                           *)
(***************************************************************************)
calculateDistance(a, b) == Sqrt((b.x - a.x) * (b.x - a.x) + (b.y - a.y) * (b.y - a.y))

\* atan2(0, 0) is 0: a zero-length ray counts as pointing along +x
RayDir(dx, dy) == IF dx = 0 /\ dy = 0 THEN <<1, 0>> ELSE <<dx, dy>>

\* cos(155 degrees)^2 = 0.82139..., taken as 23/28
COS2_EXTENDED_NUM == 23
COS2_EXTENDED_DEN == 28

\* calculateAngle(a, b, c) >= 155.  calculateAngle is the unsigned angle at b
\* between the rays to a and to c, in [0, 180]; it is at least 155 degrees
\* exactly when the cosine of the angle is at most cos(155 degrees) < 0.
AngleIsExtended(a, b, c) ==
    LET u == RayDir(a.x - b.x, a.y - b.y)
        v == RayDir(c.x - b.x, c.y - b.y)
        dot == u[1] * v[1] + u[2] * v[2]
        uu == u[1] * u[1] + u[2] * u[2]
        vv == v[1] * v[1] + v[2] * v[2]
    IN  /\ dot < 0
        /\ dot * dot * COS2_EXTENDED_DEN >= COS2_EXTENDED_NUM * uu * vv

getShoulderWidth(landmarks) ==
    calculateDistance(landmarks[LEFT_SHOULDER], landmarks[RIGHT_SHOULDER])

\* twice the torso length: the two midpoints are kept doubled to stay integral
getTorsoLength2(landmarks) ==
    LET sx == landmarks[LEFT_SHOULDER].x + landmarks[RIGHT_SHOULDER].x
        sy == landmarks[LEFT_SHOULDER].y + landmarks[RIGHT_SHOULDER].y
        hx == landmarks[LEFT_HIP].x + landmarks[RIGHT_HIP].x
        hy == landmarks[LEFT_HIP].y + landmarks[RIGHT_HIP].y
    IN  Sqrt((hx - sx) * (hx - sx) + (hy - sy) * (hy - sy))

\* ratio = shoulderWidth / torsoLength is not guarded: with torsoLength 0 it
\* is Infinity (shoulderWidth > 0) or NaN (shoulderWidth = 0)
estimateViewAngle(landmarks) ==
    LET sw == getShoulderWidth(landmarks)
        t2 == getTorsoLength2(landmarks)
        zDiff == Abs(landmarks[LEFT_SHOULDER].z - landmarks[RIGHT_SHOULDER].z)
        ratioAbove06 == IF t2 = 0 THEN sw > 0 ELSE 2 * sw * 10 > 6 * t2
        ratioBelow03 == IF t2 = 0 THEN FALSE ELSE 2 * sw * 10 < 3 * t2
    IN  IF ratioAbove06 /\ zDiff < 10 THEN "front"
        ELSE IF ratioBelow03 \/ zDiff > 20 THEN "side"
        ELSE "three-quarter"

NoCalibration == [none |-> TRUE]

WearingGloves(calibration) ==
    IF calibration = NoCalibration THEN FALSE ELSE calibration.wearingGloves

\* isGuardUp without the Math.min(100, score) cap
isGuardUpUncapped(landmarks, calibration) ==
    LET nose == landmarks[NOSE]
        leftWrist == landmarks[LEFT_WRIST]
        rightWrist == landmarks[RIGHT_WRIST]
        midChestY2 == landmarks[LEFT_SHOULDER].y + landmarks[RIGHT_SHOULDER].y
        threshold == IF WearingGloves(calibration) THEN 15 ELSE 10
        leftUp == /\ 2 * leftWrist.y < midChestY2
                  /\ leftWrist.y < nose.y + 10
                  /\ Abs(leftWrist.x - nose.x) < 30
        rightUp == /\ 2 * rightWrist.y < midChestY2
                   /\ rightWrist.y < nose.y + 10
                   /\ Abs(rightWrist.x - nose.x) < 30
        score == (IF leftUp THEN 50 ELSE 0) + (IF rightUp THEN 50 ELSE 0)
                 + (IF leftUp /\ Abs(leftWrist.y - (nose.y - 5)) < threshold
                    THEN 10 ELSE 0)
                 + (IF rightUp /\ Abs(rightWrist.y - (nose.y - 5)) < threshold
                    THEN 10 ELSE 0)
    IN  [score |-> score, leftUp |-> leftUp, rightUp |-> rightUp]

\* isGuardUp with an optimal-height bonus of 20 per wrist
isGuardUpBonus20(landmarks, calibration) ==
    LET nose == landmarks[NOSE]
        leftWrist == landmarks[LEFT_WRIST]
        rightWrist == landmarks[RIGHT_WRIST]
        midChestY2 == landmarks[LEFT_SHOULDER].y + landmarks[RIGHT_SHOULDER].y
        threshold == IF WearingGloves(calibration) THEN 15 ELSE 10
        leftUp == /\ 2 * leftWrist.y < midChestY2
                  /\ leftWrist.y < nose.y + 10
                  /\ Abs(leftWrist.x - nose.x) < 30
        rightUp == /\ 2 * rightWrist.y < midChestY2
                   /\ rightWrist.y < nose.y + 10
                   /\ Abs(rightWrist.x - nose.x) < 30
        score == (IF leftUp THEN 50 ELSE 0) + (IF rightUp THEN 50 ELSE 0)
                 + (IF leftUp /\ Abs(leftWrist.y - (nose.y - 5)) < threshold
                    THEN 20 ELSE 0)
                 + (IF rightUp /\ Abs(rightWrist.y - (nose.y - 5)) < threshold
                    THEN 20 ELSE 0)
    IN  [score |-> Min(100, score), leftUp |-> leftUp, rightUp |-> rightUp]

isGuardUp(landmarks, calibration) ==
    LET nose == landmarks[NOSE]
        leftWrist == landmarks[LEFT_WRIST]
        rightWrist == landmarks[RIGHT_WRIST]
        midChestY2 == landmarks[LEFT_SHOULDER].y + landmarks[RIGHT_SHOULDER].y
        faceRegionBottom == nose.y + 10
        threshold == IF WearingGloves(calibration) THEN 15 ELSE 10
        leftUp == /\ 2 * leftWrist.y < midChestY2
                  /\ leftWrist.y < faceRegionBottom
                  /\ Abs(leftWrist.x - nose.x) < 30
        rightUp == /\ 2 * rightWrist.y < midChestY2
                   /\ rightWrist.y < faceRegionBottom
                   /\ Abs(rightWrist.x - nose.x) < 30
        optimalHeight == nose.y - 5
        score == (IF leftUp THEN 50 ELSE 0) + (IF rightUp THEN 50 ELSE 0)
                 + (IF leftUp /\ Abs(leftWrist.y - optimalHeight) < threshold
                    THEN 10 ELSE 0)
                 + (IF rightUp /\ Abs(rightWrist.y - optimalHeight) < threshold
                    THEN 10 ELSE 0)
    IN  [score |-> Min(100, score), leftUp |-> leftUp, rightUp |-> rightUp]

\* sum of f over the frames of a sequence
RECURSIVE SumOver(_, _)
SumOver(f(_), s) == IF s = <<>> THEN 0 ELSE f(Head(s)) + SumOver(f, Tail(s))

HipX2(landmarks) == landmarks[LEFT_HIP].x + landmarks[RIGHT_HIP].x

HipY2(landmarks) == landmarks[LEFT_HIP].y + landmarks[RIGHT_HIP].y

\* n^2 * 4 * (variance of the hip centre), on the 1/100 grid
HipSpread(frames) ==
    LET n == Len(frames)
        sx == SumOver(HipX2, frames)
        sy == SumOver(HipY2, frames)
        LAMBDA_X2(l) == HipX2(l) * HipX2(l)
        LAMBDA_Y2(l) == HipY2(l) * HipY2(l)
    IN  n * SumOver(LAMBDA_X2, frames) - sx * sx
        + n * SumOver(LAMBDA_Y2, frames) - sy * sy

\* variance * 5000 in place of 100 - variance * 5000
RawStabilityInverted(frames) ==
    LET n == Len(frames)
    IN  Rat(HipSpread(frames), 8 * n * n)

\* 100 - variance * 5000, where variance * 5000 = HipSpread / (8 n^2)
RawStability(frames) ==
    LET n == Len(frames)
    IN  Rat(100 * 8 * n * n - HipSpread(frames), 8 * n * n)

\* calculateStability without the Math.max(0, ...) clamp
calculateStabilityUnclamped(frames) ==
    IF Len(frames) < 2 THEN RInt(100)
    ELSE RMin(RInt(100), RawStability(frames))

calculateStability(frames) ==
    IF Len(frames) < 2 THEN RInt(100)
    ELSE RMin(RInt(100), RMax(RInt(0), RawStability(frames)))

detectPunchExtension(landmarks, side) ==
    IF side = "left"
    THEN AngleIsExtended(landmarks[LEFT_SHOULDER], landmarks[LEFT_ELBOW],
                         landmarks[LEFT_WRIST])
    ELSE AngleIsExtended(landmarks[RIGHT_SHOULDER], landmarks[RIGHT_ELBOW],
                         landmarks[RIGHT_WRIST])

detectKneeLift(landmarks, side) ==
    IF side = "left"
    THEN landmarks[LEFT_HIP].y - landmarks[LEFT_KNEE].y > 0
    ELSE landmarks[RIGHT_HIP].y - landmarks[RIGHT_KNEE].y > 0

checkFramingQuality(landmarks) ==
    LET threshold == 30
        headVisible == landmarks[NOSE].visibility > threshold
        hipsVisible == /\ landmarks[LEFT_HIP].visibility > threshold
                       /\ landmarks[RIGHT_HIP].visibility > threshold
        anklesVisible == /\ landmarks[LEFT_ANKLE].visibility > threshold
                         /\ landmarks[RIGHT_ANKLE].visibility > threshold
    IN  [headVisible |-> headVisible, hipsVisible |-> hipsVisible,
         anklesVisible |-> anklesVisible,
         overallScore |-> (IF headVisible THEN 40 ELSE 0)
                          + (IF hipsVisible THEN 40 ELSE 0)
                          + (IF anklesVisible THEN 20 ELSE 0)]

(***************************************************************************)
(* Scoring engine (scoring.ts).  frames is a sequence of PoseFrame records *)
(* [timestamp, landmarks]; landmarksArray is frames.map(f => f.landmarks). *)
(***************************************************************************)
GUARD_MAX == 25
STABILITY_MAX == 20
EXECUTION_MAX == 40
TIMING_MAX == 15

\* the loop indices 0, step, 2*step, ... below n, as 1-based positions
GuardSampleIndices(n) ==
    LET sampleCount == Min(20, n)
        step == n \div sampleCount
    IN  {i \in 1..n : (i - 1) % step = 0}

RECURSIVE SumSet(_, _)
SumSet(f(_), S) ==
    IF S = {} THEN 0
    ELSE LET x == CHOOSE y \in S : TRUE
         IN  f(x) + SumSet(f, S \ {x})

\* calculateGuardScore leaving the average on the detector's 0-100 scale
calculateGuardScoreUnscaled(landmarksArray, calibration) ==
    IF Len(landmarksArray) = 0 THEN RInt(0)
    ELSE LET idx == GuardSampleIndices(Len(landmarksArray))
             ScoreAt(i) == isGuardUp(landmarksArray[i], calibration).score
         IN  Rat(SumSet(ScoreAt, idx), Cardinality(idx))

\* calculateGuardScore answering an empty list with a mid-range default
calculateGuardScoreMidDefault(landmarksArray, calibration) ==
    IF Len(landmarksArray) = 0 THEN RInt(12)
    ELSE LET idx == GuardSampleIndices(Len(landmarksArray))
             ScoreAt(i) == isGuardUp(landmarksArray[i], calibration).score
         IN  Rat(SumSet(ScoreAt, idx) * GUARD_MAX, Cardinality(idx) * 100)

calculateGuardScore(landmarksArray, calibration) ==
    IF Len(landmarksArray) = 0 THEN RInt(0)
    ELSE LET idx == GuardSampleIndices(Len(landmarksArray))
             ScoreAt(i) == isGuardUp(landmarksArray[i], calibration).score
             totalScore == SumSet(ScoreAt, idx)
             samples == Cardinality(idx)
         IN  Rat(totalScore * GUARD_MAX, samples * 100)

\* calculateStabilityScore with the minimum of 5 frames off by one
calculateStabilityScoreMin4(landmarksArray) ==
    IF Len(landmarksArray) < 4 THEN RInt(10)
    ELSE LET stability == calculateStability(landmarksArray)
         IN  Rat(stability[1] * STABILITY_MAX, stability[2] * 100)

calculateStabilityScore(landmarksArray) ==
    IF Len(landmarksArray) < 5 THEN RInt(10)
    ELSE LET stability == calculateStability(landmarksArray)
         IN  Rat(stability[1] * STABILITY_MAX, stability[2] * 100)

\* the punch check with the upper band ending at a ratio of 0.3
PunchCreditNarrow(landmarksArray) ==
    LET n == Len(landmarksArray)
        Ext(l) == IF detectPunchExtension(l, "left") \/ detectPunchExtension(l, "right")
                  THEN 1 ELSE 0
        punchExtensions == SumOver(Ext, landmarksArray)
    IN  IF 10 * punchExtensions > n /\ 10 * punchExtensions < 3 * n THEN 20
        ELSE IF 20 * punchExtensions > n THEN 10
        ELSE 0

PunchCredit(landmarksArray) ==
    LET n == Len(landmarksArray)
        Ext(l) == IF detectPunchExtension(l, "left") \/ detectPunchExtension(l, "right")
                  THEN 1 ELSE 0
        punchExtensions == SumOver(Ext, landmarksArray)
    IN  \* extensionRatio = punchExtensions / n against 0.1, 0.5 and 0.05
        IF 10 * punchExtensions > n /\ 2 * punchExtensions < n THEN 20
        ELSE IF 20 * punchExtensions > n THEN 10
        ELSE 0

\* the knee check with the upper band ending at a ratio of 0.5
KneeCreditWide(landmarksArray) ==
    LET n == Len(landmarksArray)
        Lift(l) == IF detectKneeLift(l, "left") \/ detectKneeLift(l, "right")
                   THEN 1 ELSE 0
        kneeLiftCount == SumOver(Lift, landmarksArray)
    IN  IF 20 * kneeLiftCount > n /\ 2 * kneeLiftCount < n THEN 20
        ELSE IF 50 * kneeLiftCount > n THEN 10
        ELSE 0

KneeCredit(landmarksArray) ==
    LET n == Len(landmarksArray)
        Lift(l) == IF detectKneeLift(l, "left") \/ detectKneeLift(l, "right")
                   THEN 1 ELSE 0
        kneeLiftCount == SumOver(Lift, landmarksArray)
    IN  \* liftRatio = kneeLiftCount / n against 0.05, 0.4 and 0.02
        IF 20 * kneeLiftCount > n /\ 5 * kneeLiftCount < 2 * n THEN 20
        ELSE IF 50 * kneeLiftCount > n THEN 10
        ELSE 0

calculateExecutionScore(landmarksArray, moveTypes) ==
    IF Len(landmarksArray) < 5 THEN RInt(20)
    ELSE LET punch == "punch" \in moveTypes
             legs == "kick" \in moveTypes \/ "knee" \in moveTypes
             score == (IF punch THEN PunchCredit(landmarksArray) ELSE 0)
                      + (IF legs THEN KneeCredit(landmarksArray) ELSE 0)
             checks == (IF punch THEN 1 ELSE 0) + (IF legs THEN 1 ELSE 0)
         IN  IF checks = 0 THEN RInt(25)
             ELSE RMin(RInt(EXECUTION_MAX), Rat(score * 40, checks * 20))

\* total displacement of the 33 landmarks between two consecutive frames
RECURSIVE MovementFrom(_, _, _)
MovementFrom(prev, cur, j) ==
    IF j = NUM_LANDMARKS THEN 0
    ELSE calculateDistance(prev[j], cur[j]) + MovementFrom(prev, cur, j + 1)

Movement(prev, cur) == MovementFrom(prev, cur, 0)

\* the bands of calculateTimingScore without their lower limits on avgMovement
RhythmScoreNoFloor(total, spread, k) ==
    IF total < 20 * k /\ spread < 100 * k * k THEN TIMING_MAX
    ELSE IF spread < 200 * k * k THEN 10
    ELSE 5

\* the bands of calculateTimingScore: avgMovement = total / k against 0.01, 0.2
\* and 0.005 (1, 20 and 1/2 on the 1/100 grid); variance = spread / k^2 against
\* 0.01 and 0.02 (100 and 200)
RhythmScore(total, spread, k) ==
    IF total > k /\ total < 20 * k /\ spread < 100 * k * k THEN TIMING_MAX
    ELSE IF 2 * total > k /\ spread < 200 * k * k THEN 10
    ELSE 5

\* the movements array: one total displacement per pair of consecutive frames
RECURSIVE Movements(_, _)
Movements(landmarksArray, i) ==
    IF i >= Len(landmarksArray) THEN <<>>
    ELSE <<Movement(landmarksArray[i], landmarksArray[i + 1])>>
         \o Movements(landmarksArray, i + 1)

SumOfSquares(s) == LET Sq(m) == m * m IN SumOver(Sq, s)

\* k^2 times the variance of the movements
MovementSpread(movements, total) ==
    Len(movements) * SumOfSquares(movements) - total * total

MovementBand(movements, total) ==
    RhythmScore(total, MovementSpread(movements, total), Len(movements))

TimingOf(movements) == MovementBand(movements, SumSeq(movements))

calculateTimingScore(landmarksArray, frames) ==
    IF Len(frames) < 5 THEN RInt(8)
    ELSE RInt(TimingOf(Movements(landmarksArray, 1)))

\* the view angle of the calibration never looked at
ViewAngleIgnored(calibration) == "none"

\* context.calibration?.viewAngle
ViewAngleOf(calibration) ==
    IF calibration = NoCalibration THEN "none" ELSE calibration.viewAngle

\* the feedback lists without .slice(0, 3)
SliceAll(s) == s

Slice3(s) == SubSeq(s, 1, Min(3, Len(s)))

\* no general strength when no axis produced one
EnsureStrengthNever(strengths) == strengths

\* `if (strengths.length === 0) strengths.push(goodForm)`
EnsureStrength(strengths) ==
    IF Len(strengths) = 0 THEN <<"feedback.strengths.goodForm">> ELSE strengths

\* the default improvement added after whatever the axes produced
EnsureImprovementAppend(improvements, sum) ==
    IF RLt(sum, RInt(80))
    THEN improvements \o <<"feedback.improvements.returnFaster">>
    ELSE improvements

\* `if (improvements.length === 0 && sum < 80) improvements.push(returnFaster)`
EnsureImprovement(improvements, sum) ==
    IF Len(improvements) = 0 /\ RLt(sum, RInt(80))
    THEN <<"feedback.improvements.returnFaster">>
    ELSE improvements

generateFeedback(scores, frames, context) ==
    LET sum == RAdd(RAdd(scores.guard, scores.stability),
                    RAdd(scores.execution, scores.timing))
        s1 == IF RLe(RInt(20), scores.guard)
              THEN <<"feedback.strengths.goodGuard">> ELSE <<>>
        i1 == IF ~RLe(RInt(20), scores.guard) /\ RLt(scores.guard, RInt(15))
              THEN <<"feedback.improvements.raiseGuard">> ELSE <<>>
        s2 == IF RLe(RInt(16), scores.stability)
              THEN <<"feedback.strengths.stableBase">> ELSE <<>>
        i2 == IF ~RLe(RInt(16), scores.stability) /\ RLt(scores.stability, RInt(10))
              THEN <<"feedback.improvements.stayBalanced">> ELSE <<>>
        s3 == IF RLe(RInt(32), scores.execution)
              THEN <<"feedback.strengths.goodExtension">> ELSE <<>>
        i3 == IF ~RLe(RInt(32), scores.execution) /\ RLt(scores.execution, RInt(20))
              THEN <<"feedback.improvements.extendMore">> ELSE <<>>
        s4 == IF RLe(RInt(12), scores.timing)
              THEN <<"feedback.strengths.goodTiming">> ELSE <<>>
        i4 == IF ~RLe(RInt(12), scores.timing) /\ RLt(scores.timing, RInt(8))
              THEN <<"feedback.improvements.improveFlow">> ELSE <<>>
        s5 == IF RLt(RInt(70), sum) THEN <<"feedback.strengths.goodForm">> ELSE <<>>
        w1 == IF Len(frames) < 50 THEN <<"feedback.warnings.lowFrameCount">> ELSE <<>>
        w2 == IF /\ Len(frames) > 0
                 /\ checkFramingQuality(frames[Len(frames)].landmarks).overallScore < 60
              THEN <<"feedback.warnings.poorFraming">> ELSE <<>>
        w3 == IF ViewAngleOf(context.calibration) = "side"
              THEN <<"feedback.warnings.sidewaysView">> ELSE <<>>
        strengths0 == s1 \o s2 \o s3 \o s4 \o s5
        improvements0 == i1 \o i2 \o i3 \o i4
        strengths == EnsureStrength(strengths0)
        improvements == EnsureImprovement(improvements0, sum)
    IN  [strengths |-> Slice3(strengths),
         improvements |-> Slice3(improvements),
         warnings |-> Slice3(w1 \o w2 \o w3)]

\* the AnalysisResult assembled from the four subscores (the frames field,
\* which is the input list itself, is left out)
ScoreResult(frames, context, guardScore, stabilityScore, executionScore, timingScore, fb) ==
    [frameCount |-> Len(frames),
     duration |-> IF Len(frames) > 0 THEN frames[Len(frames)].timestamp ELSE 0,
     score |-> [overall |-> Min(100, MathRound(RAdd(RAdd(guardScore, stabilityScore),
                                                    RAdd(executionScore, timingScore)))),
                guard |-> MathRound(guardScore),
                stability |-> MathRound(stabilityScore),
                execution |-> MathRound(executionScore),
                timing |-> MathRound(timingScore),
                strengths |-> fb.strengths,
                improvements |-> fb.improvements,
                warnings |-> fb.warnings]]

ScoreWith(frames, context, guardScore, stabilityScore, executionScore, timingScore) ==
    ScoreResult(frames, context, guardScore, stabilityScore, executionScore, timingScore,
                generateFeedback([guard |-> guardScore, stability |-> stabilityScore,
                                  execution |-> executionScore, timing |-> timingScore],
                                 frames, context))

LandmarksArray(frames) == [i \in 1..Len(frames) |-> frames[i].landmarks]

ScoreLandmarks(frames, context, landmarksArray) ==
    ScoreWith(frames, context,
              calculateGuardScore(landmarksArray, context.calibration),
              calculateStabilityScore(landmarksArray),
              calculateExecutionScore(landmarksArray, context.comboMoveTypes),
              calculateTimingScore(landmarksArray, frames))

generateScore(frames, context) ==
    ScoreLandmarks(frames, context, LandmarksArray(frames))

(***************************************************************************)
(* State.                                                                  *)
(*                                                                         *)
(* Scoring: one attempt's frame list, the scoring context and the          *)
(* AnalysisResult generateScore returned for it.                           *)
(*                                                                         *)
(* Calibration (CalibrationPhase): the React state of the component as of  *)
(* the last commit (step, holdProgress, captured, isModelLoading), the     *)
(* state updates queued by setState calls and not yet committed (pend),    *)
(* the refs (stabilityBuffer, holdStartTime, and animationRef as the cur   *)
(* flag of rafQueue), the browser's list of requested animation frames     *)
(* (rafQueue, each callback with the step its processFrame closed over),   *)
(* whether the tick-scheduling effect of the last commit is still to run   *)
(* (effectPending), and what has been persisted (savedCalibration).        *)
(* The environment: the clock (now), the pose in front of the camera       *)
(* (curPose), and counters bounding the run (moves, samples, cycles).      *)
(* holdBegan is a history variable: the time of the most recent tick of    *)
(* the current calibration cycle that took the detecting -> holding        *)
(* branch.                                                                 *)
(*                                                                         *)
(* Video storage (IndexedDB object store 'videos', keyed by sessionId):    *)
(* videos maps each stored sessionId to its record's timestamp, maxVideos  *)
(* is the configured maximum (localStorage), savePc is where the saveVideo *)
(* call in flight stands, cursorHandler whether the cursor request of its  *)
(* cleanup has an onsuccess handler yet, wallClock is Date.now().          *)
(* An optional value is <<>> (null, nothing) or <<v>>.                     *)
(* lastTimestamp is the module-level tracker of the pose module,           *)
(* detections the timestamps passed to the landmarker's detectForVideo so  *)
(* far, analysis the analyzeVideoBlob calls: where each stands, its        *)
(* locals and the values it gave to onProgress.  Times are in ms.          *)
(* practiceState .. sessionId are the state of PracticePhase, a blob being *)
(* the number of the recording it holds; history is the session history in *)
(* localStorage, recordings counts the recordings started, stopStage and   *)
(* reRecording say where handleStopRecording and handleReRecord stand,     *)
(* running holds the sessions whose runAnalysis has not finished.          *)
(***************************************************************************)
VARIABLES frames, context, result,
          mounted, videoReady, isModelLoading, step, holdProgress, captured,
          pend, stabilityBuffer, holdStartTime, rafQueue, effectPending,
          savedCalibration, completed,
          now, curPose, moves, samples, cycles, holdBegan,
          videos, maxVideos, savePc, cursorHandler, wallClock, putRequest,
          lastTimestamp, detections, analysis,
          practiceState, recordedBlob, uploadResult, isUploading, isAnalyzing,
          sessionId, history, recordings, stopStage, reRecording, running

scoreVars == <<frames, context, result>>

calVars == <<mounted, videoReady, isModelLoading, step, holdProgress, captured,
             pend, stabilityBuffer, holdStartTime, rafQueue, effectPending,
             savedCalibration, completed,
             now, curPose, moves, samples, cycles, holdBegan>>

storeVars == <<videos, maxVideos, savePc, cursorHandler, wallClock, putRequest>>

analysisVars == <<lastTimestamp, detections, analysis>>

practiceVars == <<practiceState, recordedBlob, uploadResult, isUploading,
                  isAnalyzing, sessionId, history, recordings, stopStage,
                  reRecording, running>>

vars == <<scoreVars, calVars, storeVars, analysisVars, practiceVars>>

(***************************************************************************)
(* Scoring: inputs and operations.                                         *)
(***************************************************************************)
NoResult == [none |-> TRUE]

\* 1000 / fps of the "fast" analysis preset: frame i is stamped i * 100 ms
FRAME_INTERVAL_MS == 100

ScoreCalibrations ==
    {NoCalibration, [wearingGloves |-> TRUE, viewAngle |-> "side"]}

MoveTypeSets == {{"elbow"}, {"knee"}, {"punch", "kick"}}

\* number of maximal runs of equal poses in a frame list
RECURSIVE NumRuns(_)
NumRuns(fs) ==
    IF Len(fs) <= 1 THEN Len(fs)
    ELSE NumRuns(Tail(fs)) + (IF fs[1].pose = fs[2].pose THEN 0 ELSE 1)

PoseFrames(fs) ==
    [i \in 1..Len(fs) |-> [timestamp |-> fs[i].timestamp,
                           landmarks |-> PoseOf(fs[i].pose)]]

CalInitVars ==
    /\ mounted = TRUE
    /\ videoReady = FALSE
    /\ isModelLoading = TRUE
    /\ step = "detecting"
    /\ holdProgress = RInt(0)
    /\ captured = [baselineScale |-> RInt(0), baselineGuardHeight |-> RInt(0),
                   viewAngle |-> "front"]
    /\ pend = [step |-> <<>>, holdProgress |-> <<>>, captured |-> <<>>,
               isModelLoading |-> <<>>]
    /\ stabilityBuffer = <<>>
    /\ holdStartTime = <<>>
    /\ rafQueue = <<>>
    /\ effectPending = FALSE
    /\ savedCalibration = NoCalibration
    /\ completed = FALSE
    /\ now = 0
    /\ moves = 0
    /\ samples = 0
    /\ cycles = 0
    /\ holdBegan = <<>>

ScoreInitVars ==
    /\ frames = <<>>
    /\ result = NoResult

\* an empty store, no saveVideo call in flight
StoreInitVars ==
    /\ videos = <<>>
    /\ savePc = "idle"
    /\ cursorHandler = <<>>
    /\ putRequest = <<>>
    /\ wallClock = 1

\* the video analyses that can run at the same time
AnalysisIds == {1, 2}

IdleAnalysis ==
    [pc |-> "idle", duration |-> 0, currentTime |-> 0, totalFrames |-> 0,
     processedFrames |-> 0, frameCount |-> 0, progress |-> <<>>]

\* no analyzeVideoBlob call yet, nothing passed to the pose landmarker
AnalysisInitVars ==
    /\ lastTimestamp = 0
    /\ detections = <<>>
    /\ analysis = [a \in AnalysisIds |-> IdleAnalysis]

\* PracticePhase after construction, with an empty session history
PracticeInitVars ==
    /\ practiceState = "ready"
    /\ recordedBlob = 0
    /\ uploadResult = 0
    /\ isUploading = FALSE
    /\ isAnalyzing = FALSE
    /\ sessionId = 0
    /\ history = <<>>
    /\ recordings = 0
    /\ stopStage = "none"
    /\ reRecording = FALSE
    /\ running = {}

\* the analysis appended one more frame with detected landmarks
AddFrame(p) ==
    /\ result = NoResult
    /\ Len(frames) < MaxFrames
    /\ \/ frames # <<>> /\ frames[Len(frames)].pose = p
       \/ NumRuns(frames) < MaxRuns
    /\ frames' = Append(frames, [timestamp |-> Len(frames) * FRAME_INTERVAL_MS,
                                 pose |-> p])
    /\ UNCHANGED <<context, result, calVars, storeVars, analysisVars, practiceVars>>

\* generateScore(frames, context)
Generate ==
    /\ result = NoResult
    /\ result' = generateScore(PoseFrames(frames), context)
    /\ UNCHANGED <<frames, context, calVars, storeVars, analysisVars, practiceVars>>

ScoreInit ==
    /\ ScoreInitVars
    /\ context \in [calibration : ScoreCalibrations, comboMoveTypes : MoveTypeSets]
    /\ CalInitVars
    /\ curPose = "base"
    /\ StoreInitVars
    /\ AnalysisInitVars
    /\ PracticeInitVars
    /\ maxVideos = 1

ScoreNext ==
    \/ \E p \in PoseIds : AddFrame(p)
    \/ Generate

ScoreSpec == ScoreInit /\ [][ScoreNext]_vars

(***************************************************************************)
(* Scoring of longer attempts: the analysis appends frames in runs of one  *)
(* pose, so that lists of 10, 20, 21, 40 and 41 frames are scored.         *)
(***************************************************************************)
LongPoseIds == {"base", "punch", "sway"}

RunLengths == {1, 3, 7, 20}

\* k frames of pose p stamped from frame index n on
RECURSIVE Run(_, _, _)
Run(p, k, n) ==
    IF k = 0 THEN <<>>
    ELSE <<[timestamp |-> n * FRAME_INTERVAL_MS, pose |-> p]>> \o Run(p, k - 1, n + 1)

\* the analysis appended k frames in which the person holds pose p
AddRun(p, k) ==
    /\ result = NoResult
    /\ NumRuns(frames) < MaxAppends
    /\ frames # <<>> => frames[Len(frames)].pose # p
    /\ Len(frames) + k <= MaxLongFrames
    /\ frames' = frames \o Run(p, k, Len(frames))
    /\ UNCHANGED <<context, result, calVars, storeVars, analysisVars, practiceVars>>

LongScoreInit ==
    /\ ScoreInitVars
    /\ context \in [calibration : {NoCalibration},
                     comboMoveTypes : {{"punch"}, {"punch", "kick"}}]
    /\ CalInitVars
    /\ curPose = "base"
    /\ StoreInitVars
    /\ AnalysisInitVars
    /\ PracticeInitVars
    /\ maxVideos = 1

LongScoreNext ==
    \/ \E p \in LongPoseIds, k \in RunLengths : AddRun(p, k)
    \/ Generate

LongScoreSpec == LongScoreInit /\ [][LongScoreNext]_vars

(***************************************************************************)
(* Scoring of whole sessions: lists of 49, 50 and 51 frames, with and      *)
(* without a calibration, ending in a well or a poorly framed pose.        *)
(***************************************************************************)
MaxSessionFrames == 51

SessionPoseIds == {"base", "side"}

SessionRunLengths == {1, 24, 25}

SessionCalibrations ==
    {NoCalibration,
     [wearingGloves |-> TRUE, viewAngle |-> "side"],
     [wearingGloves |-> FALSE, viewAngle |-> "front"]}

\* the analysis appended k frames in which the person holds pose p
AddSessionRun(p, k) ==
    /\ result = NoResult
    /\ NumRuns(frames) < MaxAppends
    /\ frames # <<>> => frames[Len(frames)].pose # p
    /\ Len(frames) + k <= MaxSessionFrames
    /\ frames' = frames \o Run(p, k, Len(frames))
    /\ UNCHANGED <<context, result, calVars, storeVars, analysisVars, practiceVars>>

SessionScoreInit ==
    /\ ScoreInitVars
    /\ context \in [calibration : SessionCalibrations, comboMoveTypes : {{"punch"}}]
    /\ CalInitVars
    /\ curPose = "base"
    /\ StoreInitVars
    /\ AnalysisInitVars
    /\ PracticeInitVars
    /\ maxVideos = 1

SessionScoreNext ==
    \/ \E p \in SessionPoseIds, k \in SessionRunLengths : AddSessionRun(p, k)
    \/ Generate

SessionScoreSpec == SessionScoreInit /\ [][SessionScoreNext]_vars

(***************************************************************************)
(* Calibration state machine (CalibrationPhase).                           *)
(*                                                                         *)
(* processFrame is one animation-frame callback.  Its only await is on     *)
(* detectPose, whose landmarker promise is already resolved once the model *)
(* is loaded, so the callback runs to its end without another browser task *)
(* in between: one tick is one action.  What does interleave with ticks is *)
(* React: a setState call made by a tick only queues an update (pend); a   *)
(* later task renders and commits it (Commit); the tick-scheduling effect  *)
(* of that commit runs later still (RunEffect).  Until then the callback   *)
(* the tick re-requested for itself is still in the browser's list, and it *)
(* carries the processFrame of the old render, which closed over the old   *)
(* step.                                                                   *)
(***************************************************************************)
HOLD_DURATION == 3000
\* STABILITY_THRESHOLD = 0.02, on the squared 1/100 grid
STABILITY_THRESHOLD == 200
BUFFER_MAX == 30
MIN_SAMPLES == 10

\* model time advances in steps of half the hold duration
TimeStepMs == HOLD_DURATION \div 2

EmptyPend ==
    [step |-> <<>>, holdProgress |-> <<>>, captured |-> <<>>, isModelLoading |-> <<>>]

\* animationRef.current = requestAnimationFrame(cb), cb closed over step c
Request(q, c) ==
    Append([i \in 1..Len(q) |-> [q[i] EXCEPT !.cur = FALSE]],
           [clos |-> c, cur |-> TRUE])

\* cancelAnimationFrame(animationRef.current): a no-op once that callback ran
Cancel(q) == SelectSeq(q, LAMBDA e : ~e.cur)

\* n^2 * variance of the buffer
BufferSpread(buf) ==
    Len(buf) * SumOfSquares(buf) - SumSeq(buf) * SumSeq(buf)

IsStable(buf) == BufferSpread(buf) < STABILITY_THRESHOLD * Len(buf) * Len(buf)

\* the push with the shift one sample late
PushSampleShiftLate(buf, v) ==
    IF Len(buf) + 1 > BUFFER_MAX + 1 THEN Tail(Append(buf, v)) ELSE Append(buf, v)

\* stabilityBufferRef.current.push(shoulderWidth), and shift() above 30
PushSample(buf, v) ==
    IF Len(buf) + 1 > BUFFER_MAX THEN Tail(Append(buf, v)) ELSE Append(buf, v)

\* performance.now() - (holdStartTimeRef.current || 0)
Elapsed(t, hold) == t - (IF hold = <<>> THEN 0 ELSE hold[1])

\* Math.min(100, (elapsed / HOLD_DURATION) * 100)
HoldProgress(elapsed) == RMin(RInt(100), Rat(elapsed * 100, HOLD_DURATION))

Capture(buf, landmarks) ==
    [baselineScale |-> Rat(SumSeq(buf), Len(buf)),
     baselineGuardHeight |->
         Rat(2 * landmarks[NOSE].y
             - (landmarks[LEFT_WRIST].y + landmarks[RIGHT_WRIST].y), 2),
     viewAngle |-> estimateViewAngle(landmarks)]

\* the branches of processFrame with elapsed > HOLD_DURATION for >=
TickKindStrict(c, buf, t, hold) ==
    IF Len(buf) < MIN_SAMPLES THEN "short"
    ELSE IF IsStable(buf) /\ c = "detecting" THEN "hold"
    ELSE IF IsStable(buf) /\ c = "holding"
         THEN IF Elapsed(t, hold) > HOLD_DURATION THEN "confirm" ELSE "progress"
    ELSE IF ~IsStable(buf) /\ c = "holding" THEN "drop"
    ELSE "idle"

\* the branches of processFrame with one sample fewer required
TickKindEarly(c, buf, t, hold) ==
    IF Len(buf) < MIN_SAMPLES - 1 THEN "short"
    ELSE IF IsStable(buf) /\ c = "detecting" THEN "hold"
    ELSE IF IsStable(buf) /\ c = "holding"
         THEN IF Elapsed(t, hold) >= HOLD_DURATION THEN "confirm" ELSE "progress"
    ELSE IF ~IsStable(buf) /\ c = "holding" THEN "drop"
    ELSE "idle"

\* which branch of processFrame a callback closed over step c takes on a frame
\* with landmarks, buf being the buffer after the push
TickKind(c, buf, t, hold) ==
    IF Len(buf) < MIN_SAMPLES THEN "short"
    ELSE IF IsStable(buf) /\ c = "detecting" THEN "hold"
    ELSE IF IsStable(buf) /\ c = "holding"
         THEN IF Elapsed(t, hold) >= HOLD_DURATION THEN "confirm" ELSE "progress"
    ELSE IF ~IsStable(buf) /\ c = "holding" THEN "drop"
    ELSE "idle"

\* the state updates the branch queues
TickPend(kind, p, buf, landmarks, t, hold) ==
    CASE kind = "hold" -> [p EXCEPT !.step = <<"holding">>]
      [] kind = "progress" ->
            [p EXCEPT !.holdProgress = <<HoldProgress(Elapsed(t, hold))>>]
      [] kind = "confirm" ->
            [p EXCEPT !.holdProgress = <<HoldProgress(Elapsed(t, hold))>>,
                      !.captured = <<Capture(buf, landmarks)>>,
                      !.step = <<"confirm">>]
      [] kind = "drop" -> [p EXCEPT !.step = <<"detecting">>,
                                    !.holdProgress = <<RInt(0)>>]
      [] OTHER -> p

TickHold(kind, t, hold) ==
    CASE kind = "hold" -> <<t>>
      [] kind = "drop" -> <<>>
      [] OTHER -> hold

\* a frame without landmarks that ends the hold in progress
NoLandmarksEndsHold ==
    /\ holdStartTime' = <<>>
    /\ pend' = IF holdStartTime # <<>>
               THEN [pend EXCEPT !.step = <<"detecting">>]
               ELSE pend
    /\ UNCHANGED <<stabilityBuffer, samples, holdBegan>>

\* the rest of the `if (landmarks)` block once the branch is known
TakeBranch(kind, buf, landmarks) ==
    /\ stabilityBuffer' = buf
    /\ samples' = samples + 1
    /\ pend' = TickPend(kind, pend, buf, landmarks, now', holdStartTime)
    /\ holdStartTime' = TickHold(kind, now', holdStartTime)
    /\ holdBegan' = IF kind = "hold" THEN <<now'>> ELSE holdBegan

\* the `if (landmarks)` block of a callback closed over step c, buf being the
\* buffer after the push and the shift
WithLandmarks(c, landmarks, buf) ==
    TakeBranch(TickKind(c, buf, now', holdStartTime), buf, landmarks)

\* detectPose returned null: `if (landmarks) { ... }` is skipped
NoLandmarks ==
    UNCHANGED <<pend, stabilityBuffer, holdStartTime, samples, holdBegan>>

\* processFrame, run as the animation-frame callback at the head of the
\* browser's list, dt later than the previous tick; lm is what detectPose
\* returned ("none" for null)
Tick(dt, lm) ==
    /\ rafQueue # <<>>
    /\ now + dt <= MaxNow * TimeStepMs
    /\ lm # "none" => mounted /\ videoReady /\ samples < MaxSamples
    /\ now' = now + dt
    /\ LET c == Head(rafQueue).clos
           rest == Tail(rafQueue)
       IN  IF ~mounted \/ ~videoReady
           THEN \* no video element, or no frame yet: try again next frame
                /\ rafQueue' = Request(rest, c)
                /\ UNCHANGED <<pend, stabilityBuffer, holdStartTime, samples,
                               holdBegan>>
           ELSE /\ IF lm = "none"
                   THEN NoLandmarks
                   ELSE WithLandmarks(c, PoseOf(lm),
                                      PushSample(stabilityBuffer,
                                                 getShoulderWidth(PoseOf(lm))))
                /\ rafQueue' = IF c # "confirm" THEN Request(rest, c) ELSE rest
    /\ UNCHANGED <<mounted, videoReady, isModelLoading, step, holdProgress, captured,
                   effectPending, savedCalibration, completed, curPose, moves,
                   cycles, scoreVars, storeVars, analysisVars, practiceVars>>

Opt(o, old) == IF o = <<>> THEN old ELSE o[1]

\* React renders and commits the queued state updates (one batch)
Commit ==
    /\ mounted
    /\ ~effectPending
    /\ pend # EmptyPend
    /\ step' = Opt(pend.step, step)
    /\ holdProgress' = Opt(pend.holdProgress, holdProgress)
    /\ captured' = Opt(pend.captured, captured)
    /\ isModelLoading' = Opt(pend.isModelLoading, isModelLoading)
    /\ pend' = EmptyPend
    \* the effect's dependencies are [isModelLoading, error, step, processFrame]
    /\ effectPending' = (step' # step \/ isModelLoading' # isModelLoading)
    /\ UNCHANGED <<mounted, videoReady, stabilityBuffer, holdStartTime, rafQueue,
                   savedCalibration, completed, now, curPose, moves, samples, cycles, holdBegan, scoreVars, storeVars, analysisVars, practiceVars>>

\* the effect's cleanup followed by the effect of the committed render
EffectQueue(q, loading, s) ==
    IF ~loading /\ s # "confirm" THEN Request(Cancel(q), s) ELSE Cancel(q)

RunEffect ==
    /\ mounted
    /\ effectPending
    /\ rafQueue' = EffectQueue(rafQueue, isModelLoading, step)
    /\ effectPending' = FALSE
    /\ UNCHANGED <<mounted, videoReady, isModelLoading, step, holdProgress, captured,
                   pend, stabilityBuffer, holdStartTime, savedCalibration, completed,
                   now, curPose, moves, samples, cycles, holdBegan, scoreVars, storeVars, analysisVars, practiceVars>>

\* init(): initPoseLandmarker() resolved, setIsModelLoading(false)
ModelLoaded ==
    /\ mounted
    /\ isModelLoading
    /\ pend.isModelLoading = <<>>
    /\ pend' = [pend EXCEPT !.isModelLoading = <<FALSE>>]
    /\ UNCHANGED <<mounted, videoReady, isModelLoading, step, holdProgress, captured,
                   stabilityBuffer, holdStartTime, rafQueue, effectPending,
                   savedCalibration, completed, now, curPose, moves, samples, cycles, holdBegan, scoreVars, storeVars, analysisVars, practiceVars>>

\* init(): the camera stream is attached and the video plays
CameraReady ==
    /\ mounted
    /\ ~videoReady
    /\ ~isModelLoading \/ pend.isModelLoading = <<FALSE>>
    /\ videoReady' = TRUE
    /\ UNCHANGED <<mounted, isModelLoading, step, holdProgress, captured, pend,
                   stabilityBuffer, holdStartTime, rafQueue, effectPending,
                   savedCalibration, completed, now, curPose, moves, samples, cycles, holdBegan, scoreVars, storeVars, analysisVars, practiceVars>>

\* React discards the state and the refs of the unmounted component; both
\* effects' cleanups cancel animationRef's callback.  Callbacks left in the
\* browser's list still run, and find videoRef.current null.
Discard ==
    /\ mounted' = FALSE
    /\ videoReady' = FALSE
    /\ isModelLoading' = TRUE
    /\ step' = "detecting"
    /\ holdProgress' = RInt(0)
    /\ captured' = [baselineScale |-> RInt(0), baselineGuardHeight |-> RInt(0),
                    viewAngle |-> "front"]
    /\ pend' = EmptyPend
    /\ stabilityBuffer' = <<>>
    /\ holdStartTime' = <<>>
    /\ rafQueue' = Cancel(rafQueue)
    /\ effectPending' = FALSE
    /\ samples' = 0
    /\ holdBegan' = <<>>

\* the user leaves the calibration screen
Unmount ==
    /\ mounted
    /\ Discard
    /\ UNCHANGED <<savedCalibration, completed, now, curPose, moves, cycles, scoreVars, storeVars, analysisVars, practiceVars>>

\* the CalibrationData handleConfirm builds from the committed render
ConfirmedCalibration ==
    [viewAngle |-> captured.viewAngle,
     wearingGloves |-> FALSE,
     baselineScale |-> captured.baselineScale,
     baselineGuardHeight |-> captured.baselineGuardHeight]

\* handleConfirm behind a button that is rendered in every step
ConfirmClickAnyStep ==
    /\ mounted
    /\ savedCalibration' = ConfirmedCalibration
    /\ completed' = TRUE
    /\ Discard
    /\ UNCHANGED <<now, curPose, moves, cycles, scoreVars, storeVars, analysisVars, practiceVars>>

\* handleConfirm, the click on the confirm button, which is rendered only
\* while the committed step is 'confirm': saveCalibration, then onComplete,
\* on which the session wizard leaves the calibration phase
ConfirmClick ==
    /\ mounted
    /\ step = "confirm"
    /\ savedCalibration' = ConfirmedCalibration
    /\ completed' = TRUE
    /\ Discard
    /\ UNCHANGED <<now, curPose, moves, cycles, scoreVars, storeVars, analysisVars, practiceVars>>

\* handleRecalibrate, the click on the recalibrate button (rendered only while
\* the committed step is 'confirm').  The handler requests a frame for the
\* processFrame of the confirm render; React then renders synchronously: a
\* still pending effect runs first (its cleanup cancels the request just made),
\* step and holdProgress are committed, and the new render's effect cancels
\* animationRef's callback and requests a frame for the new processFrame.
\* Either way the callbacks that were in the list stay there.
RecalibrateQueue(q) == Request(Cancel(Request(q, "confirm")), "detecting")

RecalibrateClick ==
    /\ mounted
    /\ step = "confirm"
    /\ cycles < MaxCycles
    /\ cycles' = cycles + 1
    /\ step' = "detecting"
    /\ holdProgress' = RInt(0)
    /\ holdStartTime' = <<>>
    /\ stabilityBuffer' = <<>>
    /\ pend' = [pend EXCEPT !.step = <<>>, !.holdProgress = <<>>]
    /\ rafQueue' = RecalibrateQueue(rafQueue)
    /\ effectPending' = FALSE
    /\ samples' = 0
    /\ holdBegan' = <<>>
    /\ UNCHANGED <<mounted, videoReady, isModelLoading, captured, savedCalibration,
                   completed, now, curPose, moves, scoreVars, storeVars, analysisVars, practiceVars>>

\* the person in front of the camera changes pose
Move(p) ==
    /\ mounted
    /\ moves < MaxMoves
    /\ p # curPose
    /\ curPose' = p
    /\ moves' = moves + 1
    /\ UNCHANGED <<mounted, videoReady, isModelLoading, step, holdProgress, captured,
                   pend, stabilityBuffer, holdStartTime, rafQueue, effectPending,
                   savedCalibration, completed, now, samples, cycles,
                   holdBegan, scoreVars, storeVars, analysisVars, practiceVars>>

Init ==
    /\ CalInitVars
    /\ curPose = "base"
    /\ ScoreInitVars
    /\ context = [calibration |-> NoCalibration, comboMoveTypes |-> {"punch"}]
    /\ StoreInitVars
    /\ AnalysisInitVars
    /\ PracticeInitVars
    /\ maxVideos = 1

Next ==
    \/ \E dt \in {0, TimeStepMs}, lm \in {"none", curPose} : Tick(dt, lm)
    \/ Commit
    \/ RunEffect
    \/ ModelLoaded
    \/ CameraReady
    \/ ConfirmClick
    \/ RecalibrateClick
    \/ Unmount
    \/ \E p \in CalPoseIds : Move(p)

Spec == Init /\ [][Next]_vars

(***************************************************************************)
(* Video storage.  videos is the IndexedDB object store (sessionId ->      *)
(* timestamp), maxVideos the number kept in localStorage (0: none stored), *)
(* wallClock is Date.now().  savePc is the position of the saveVideo call  *)
(* in progress: "put" (the put request is pending), "cursorPending" (the   *)
(* clean-up transaction has issued openCursor and then count; requests of  *)
(* one transaction succeed in the order they were made), "countPending"    *)
(* (the cursor's success event was delivered, count is pending),           *)
(* "resolved" (the promise resolved) and "unsettled" (no request is left   *)
(* and the promise was neither resolved nor rejected).  cursorHandler is   *)
(* <<>> while the cursor request has no onsuccess handler and              *)
(* <<deleteCount>> once countRequest.onsuccess has assigned it.            *)
(***************************************************************************)
MaxClock == 3
MaxSetting == 2
DEFAULT_MAX_VIDEOS == 10

SessionIds == {"s1", "s2", "s3"}

getMaxVideos == IF maxVideos > 0 THEN maxVideos ELSE DEFAULT_MAX_VIDEOS

\* store.put(video): keyPath sessionId, an existing record is replaced
StorePut(store, video) ==
    [id \in DOMAIN store \cup {video.sessionId} |->
        IF id = video.sessionId THEN video.timestamp ELSE store[id]]

\* the k session ids the timestamp index yields first (oldest first)
Oldest(store, k) ==
    CHOOSE S \in SUBSET DOMAIN store :
        /\ Cardinality(S) = Min(k, Cardinality(DOMAIN store))
        /\ \A a \in S, b \in DOMAIN store \ S : store[a] <= store[b]

StoreDelete(store, S) == [id \in DOMAIN store \ S |-> store[id]]

SaveVideo(sid) ==
    /\ savePc \in {"idle", "resolved", "unsettled"}
    /\ putRequest' = <<[sessionId |-> sid, timestamp |-> wallClock]>>
    /\ savePc' = "put"
    /\ UNCHANGED <<videos, maxVideos, cursorHandler, wallClock, scoreVars, calVars, analysisVars, practiceVars>>

\* request.onsuccess of the put: the record is stored, cleanupOldVideos opens
\* its transaction and issues index.openCursor() and then store.count()
PutSuccess ==
    /\ savePc = "put"
    /\ videos' = StorePut(videos, putRequest[1])
    /\ putRequest' = <<>>
    /\ cursorHandler' = <<>>
    /\ savePc' = "cursorPending"
    /\ UNCHANGED <<maxVideos, wallClock, scoreVars, calVars, analysisVars, practiceVars>>

\* the success event of the cursor request
CursorSuccess ==
    /\ savePc = "cursorPending"
    /\ IF cursorHandler = <<>>
       THEN /\ savePc' = "countPending"
            /\ videos' = videos
       ELSE /\ videos' = StoreDelete(videos, Oldest(videos, cursorHandler[1]))
            /\ savePc' = "resolved"
    /\ UNCHANGED <<maxVideos, cursorHandler, wallClock, putRequest, scoreVars, calVars, analysisVars, practiceVars>>

\* countRequest.onsuccess
CountSuccess ==
    /\ savePc = "countPending"
    /\ LET deleteCount == Max(0, Cardinality(DOMAIN videos) - getMaxVideos)
       IN  IF deleteCount = 0
           THEN /\ savePc' = "resolved"
                /\ cursorHandler' = cursorHandler
           ELSE /\ cursorHandler' = <<deleteCount>>
                /\ savePc' = "unsettled"
    /\ UNCHANGED <<videos, maxVideos, wallClock, putRequest, scoreVars, calVars, analysisVars, practiceVars>>

ClockTick ==
    /\ wallClock < MaxClock
    /\ wallClock' = wallClock + 1
    /\ UNCHANGED <<videos, maxVideos, savePc, cursorHandler, putRequest, scoreVars, calVars, analysisVars, practiceVars>>

StoreInit ==
    /\ CalInitVars
    /\ curPose = "base"
    /\ ScoreInitVars
    /\ context = [calibration |-> NoCalibration, comboMoveTypes |-> {"punch"}]
    /\ StoreInitVars
    /\ AnalysisInitVars
    /\ PracticeInitVars
    /\ maxVideos \in 0..MaxSetting

StoreNext ==
    \/ \E sid \in SessionIds : SaveVideo(sid)
    \/ PutSuccess
    \/ CursorSuccess
    \/ CountSuccess
    \/ ClockTick

StoreSpec == StoreInit /\ [][StoreNext]_vars

(***************************************************************************)
(* The calibration state machine late in its first detection: the buffer   *)
(* already holds 29 samples, all taken before the clock's first step.      *)
(* samples and moves count the samples and stance changes from here on.    *)
(***************************************************************************)
\* a wide first sample followed by the basic stance: stable from the tenth
\* sample on, so that the hold began on the tenth sample
HeldBuffer ==
    [i \in 1..(BUFFER_MAX - 1) |->
        getShoulderWidth(IF i = 1 THEN WidePose ELSE BasePose)]

\* a person who changes stance on every frame: never stable
SwayedBuffer ==
    [i \in 1..(BUFFER_MAX - 1) |->
        getShoulderWidth(IF i % 2 = 1 THEN WidePose ELSE BasePose)]

BufferInit ==
    /\ mounted = TRUE
    /\ videoReady = TRUE
    /\ isModelLoading = FALSE
    /\ holdProgress = RInt(0)
    /\ captured = [baselineScale |-> RInt(0), baselineGuardHeight |-> RInt(0),
                   viewAngle |-> "front"]
    /\ pend = EmptyPend
    /\ effectPending = FALSE
    /\ savedCalibration = NoCalibration
    /\ completed = FALSE
    /\ now = 0
    /\ moves = 0
    /\ samples = 0
    /\ cycles = 0
    /\ \/ /\ step = "holding"
          /\ stabilityBuffer = HeldBuffer
          /\ holdStartTime = <<0>>
          /\ holdBegan = <<0>>
          /\ rafQueue = <<[clos |-> "holding", cur |-> TRUE]>>
          /\ curPose = "base"
       \/ /\ step = "detecting"
          /\ stabilityBuffer = SwayedBuffer
          /\ holdStartTime = <<>>
          /\ holdBegan = <<>>
          /\ rafQueue = <<[clos |-> "detecting", cur |-> TRUE]>>
          /\ curPose = "wide"
    /\ ScoreInitVars
    /\ context = [calibration |-> NoCalibration, comboMoveTypes |-> {"punch"}]
    /\ StoreInitVars
    /\ AnalysisInitVars
    /\ PracticeInitVars
    /\ maxVideos = 1

BufferNext ==
    \/ \E dt \in {0, TimeStepMs}, lm \in {"none", curPose} : Tick(dt, lm)
    \/ Commit
    \/ RunEffect
    \/ ConfirmClick
    \/ RecalibrateClick
    \/ Unmount
    \/ \E p \in CalPoseIds : Move(p)

BufferSpec == BufferInit /\ [][BufferNext]_vars

(***************************************************************************)
(* Calibration in front of a person who also folds forward, so that frames *)
(* with a torso of length zero reach processFrame.                         *)
(***************************************************************************)
TorsoNext ==
    \/ \E dt \in {0, TimeStepMs}, lm \in {"none", curPose} : Tick(dt, lm)
    \/ Commit
    \/ RunEffect
    \/ ModelLoaded
    \/ CameraReady
    \/ \E p \in TorsoPoseIds : Move(p)

TorsoSpec == Init /\ [][TorsoNext]_vars

(***************************************************************************)
(* Video analysis: analyzeVideoBlob, with the "fast" preset (10 fps) in    *)
(* the settings, so that every call uses the same landmarker instance.     *)
(***************************************************************************)
\* video.duration of the recordings, below maxDurationSec; none is a multiple
\* of the frame interval, where the floating-point sum of currentTime decides
AnalysisDurations == {150, 250}

\* Math.round(x / y * 100) for y > 0
RoundPercent(x, y) == (2 * 100 * x + y) \div (2 * y)

\* analyzeVideoBlob(blob, onProgress) up to the returned promise:
\* lastTimestamp = 0, then the video element loads the blob
StartAnalysis(a, d) ==
    /\ analysis[a].pc = "idle"
    /\ lastTimestamp' = 0
    /\ analysis' = [analysis EXCEPT ![a] = [IdleAnalysis EXCEPT !.pc = "loading",
                                                                !.duration = d]]
    /\ UNCHANGED <<detections, scoreVars, calVars, storeVars, practiceVars>>

\* processFrame up to `await new Promise(resolveSeek ...)`: resolves when
\* currentTime is past the duration, seeks otherwise
SeekOrResolve(r) ==
    [r EXCEPT !.pc = IF r.currentTime > r.duration THEN "resolved" ELSE "seeking"]

\* video.onloadedmetadata: the locals, initPoseLandmarker, the first
\* processFrame
LoadedMetadata(a) ==
    /\ analysis[a].pc = "loading"
    /\ LET r == analysis[a]
       IN  analysis' = [analysis EXCEPT ![a] =
               SeekOrResolve([r EXCEPT !.currentTime = 0,
                                       !.totalFrames = r.duration \div FRAME_INTERVAL_MS,
                                       !.processedFrames = 0])]
    /\ UNCHANGED <<lastTimestamp, detections, scoreVars, calVars, storeVars, practiceVars>>

\* Math.max(Math.floor(currentTime * 1000) + 1, lastTimestamp + 1)
NextTimestamp(currentTime, last) == Max(currentTime + 1, last + 1)

\* the value given to onProgress; x / 0 is Infinity for x > 0
ProgressValue(processed, total) ==
    IF total = 0 THEN "Infinity" ELSE RoundPercent(processed, total)

\* video.onseeked: the rest of processFrame and the start of the next one;
\* found is whether detectPose returned landmarks
Seeked(a, found) ==
    /\ analysis[a].pc = "seeking"
    /\ LET r == analysis[a]
           timestamp == NextTimestamp(r.currentTime, lastTimestamp)
       IN  /\ lastTimestamp' = timestamp
           /\ detections' = Append(detections, timestamp)
           /\ analysis' = [analysis EXCEPT ![a] =
                  SeekOrResolve(
                      [r EXCEPT !.frameCount = @ + (IF found THEN 1 ELSE 0),
                                !.processedFrames = @ + 1,
                                !.progress = Append(@, ProgressValue(r.processedFrames + 1,
                                                                     r.totalFrames)),
                                !.currentTime = @ + FRAME_INTERVAL_MS])]
    /\ UNCHANGED <<scoreVars, calVars, storeVars, practiceVars>>

AnalysisInit ==
    /\ CalInitVars
    /\ curPose = "base"
    /\ ScoreInitVars
    /\ context = [calibration |-> NoCalibration, comboMoveTypes |-> {"punch"}]
    /\ StoreInitVars
    /\ AnalysisInitVars
    /\ PracticeInitVars
    /\ maxVideos = 1

AnalysisNext ==
    \/ \E a \in AnalysisIds, d \in AnalysisDurations : StartAnalysis(a, d)
    \/ \E a \in AnalysisIds : LoadedMetadata(a)
    \/ \E a \in AnalysisIds, found \in BOOLEAN : Seeked(a, found)

AnalysisSpec == AnalysisInit /\ [][AnalysisNext]_vars

(***************************************************************************)
(* PracticePhase: recording, the background-analysis effect, Re-record.    *)
(* The person is signed in.  saveVideo and analyzeVideoBlob, started by    *)
(* the effect, are the operations of the two sections above; here only    *)
(* the end of runAnalysis is a step.                                       *)
(***************************************************************************)
MaxRecordings == 3

\* the guard of the background-analysis effect
EffectDue ==
    /\ practiceState = "complete"
    /\ recordedBlob # 0
    /\ ~isAnalyzing
    /\ sessionId = 0

\* the browser runs a handler only after the effects of the last render
HandlerMayRun == ~EffectDue

handleStartCountdown ==
    /\ HandlerMayRun
    /\ practiceState = "ready"
    /\ recordings < MaxRecordings
    /\ practiceState' = "countdown"
    /\ UNCHANGED <<recordedBlob, uploadResult, isUploading, isAnalyzing, sessionId,
                   history, recordings, stopStage, reRecording, running,
                   scoreVars, calVars, storeVars, analysisVars>>

\* the countdown effect at 0: setState('recording'), recorder.start()
CountdownEnds ==
    /\ HandlerMayRun
    /\ practiceState = "countdown"
    /\ practiceState' = "recording"
    /\ recordings' = recordings + 1
    /\ UNCHANGED <<recordedBlob, uploadResult, isUploading, isAnalyzing, sessionId,
                   history, stopStage, reRecording, running,
                   scoreVars, calVars, storeVars, analysisVars>>

handlePauseRecording ==
    /\ HandlerMayRun
    /\ practiceState = "recording"
    /\ practiceState' = "paused"
    /\ UNCHANGED <<recordedBlob, uploadResult, isUploading, isAnalyzing, sessionId,
                   history, recordings, stopStage, reRecording, running,
                   scoreVars, calVars, storeVars, analysisVars>>

handleResumeRecording ==
    /\ HandlerMayRun
    /\ practiceState = "paused"
    /\ practiceState' = "recording"
    /\ UNCHANGED <<recordedBlob, uploadResult, isUploading, isAnalyzing, sessionId,
                   history, recordings, stopStage, reRecording, running,
                   scoreVars, calVars, storeVars, analysisVars>>

\* handleStopRecording up to `await recorderRef.current?.stop()`; called by
\* the recording timer at 0 and by the stop button of the paused overlay
handleStopRecording ==
    /\ HandlerMayRun
    /\ practiceState \in {"recording", "paused"}
    /\ practiceState' = "finishing"
    /\ stopStage' = "stopping"
    /\ UNCHANGED <<recordedBlob, uploadResult, isUploading, isAnalyzing, sessionId,
                   history, recordings, reRecording, running,
                   scoreVars, calVars, storeVars, analysisVars>>

\* the recorder delivered the blob: setRecordedBlob, setPlaybackUrl, setTimeout
RecorderStopped ==
    /\ HandlerMayRun
    /\ stopStage = "stopping"
    /\ recordedBlob' = recordings
    /\ stopStage' = "celebrating"
    /\ UNCHANGED <<practiceState, uploadResult, isUploading, isAnalyzing, sessionId,
                   history, recordings, reRecording, running,
                   scoreVars, calVars, storeVars, analysisVars>>

\* the 2 second timeout of handleStopRecording: setState('complete')
CelebrationEnds ==
    /\ HandlerMayRun
    /\ stopStage = "celebrating"
    /\ practiceState' = "complete"
    /\ stopStage' = "none"
    /\ UNCHANGED <<recordedBlob, uploadResult, isUploading, isAnalyzing, sessionId,
                   history, recordings, reRecording, running,
                   scoreVars, calVars, storeVars, analysisVars>>

\* generateSessionId(): a fresh id
NewSessionId == Len(history) + 1

\* the background-analysis effect past its guard: setSessionId, addToHistory
\* (unshift), saveVideo, setIsAnalyzing(true), runAnalysis()
AnalysisEffect ==
    /\ EffectDue
    /\ sessionId' = NewSessionId
    /\ history' = <<[id |-> NewSessionId, video |-> recordedBlob,
                     driveFile |-> uploadResult, isAnalyzing |-> TRUE]>> \o history
    /\ isAnalyzing' = TRUE
    /\ running' = running \cup {NewSessionId}
    /\ UNCHANGED <<practiceState, recordedBlob, uploadResult, isUploading,
                   recordings, stopStage, reRecording,
                   scoreVars, calVars, storeVars, analysisVars>>

\* updateSession(id, {isAnalyzing: false, ...})
updateSession(h, id) ==
    [i \in 1..Len(h) |-> IF h[i].id = id THEN [h[i] EXCEPT !.isAnalyzing = FALSE]
                                         ELSE h[i]]

\* runAnalysis after analyzeVideoBlob settled, resolved or rejected:
\* updateSession with isAnalyzing false, finally setIsAnalyzing(false)
AnalysisEnds(id) ==
    /\ HandlerMayRun
    /\ id \in running
    /\ history' = updateSession(history, id)
    /\ isAnalyzing' = FALSE
    /\ running' = running \ {id}
    /\ UNCHANGED <<practiceState, recordedBlob, uploadResult, isUploading, sessionId,
                   recordings, stopStage, reRecording,
                   scoreVars, calVars, storeVars, analysisVars>>

\* handleUpload up to `await uploadVideoToDrive(...)`; the button is disabled
\* while uploading and once uploaded
handleUpload ==
    /\ HandlerMayRun
    /\ practiceState = "complete"
    /\ recordedBlob # 0
    /\ ~isUploading /\ uploadResult = 0
    /\ isUploading' = TRUE
    /\ UNCHANGED <<practiceState, recordedBlob, uploadResult, isAnalyzing, sessionId,
                   history, recordings, stopStage, reRecording, running,
                   scoreVars, calVars, storeVars, analysisVars>>

\* the upload settled: setUploadResult(result) when ok, setIsUploading(false)
UploadEnds(ok) ==
    /\ HandlerMayRun
    /\ isUploading
    /\ uploadResult' = IF ok THEN 1 ELSE uploadResult
    /\ isUploading' = FALSE
    /\ UNCHANGED <<practiceState, recordedBlob, isAnalyzing, sessionId,
                   history, recordings, stopStage, reRecording, running,
                   scoreVars, calVars, storeVars, analysisVars>>

\* handleReRecord up to `await recorder.initialize()`
handleReRecord ==
    /\ HandlerMayRun
    /\ practiceState = "complete"
    /\ ~reRecording
    /\ recordedBlob' = 0
    /\ uploadResult' = 0
    /\ reRecording' = TRUE
    /\ UNCHANGED <<practiceState, isUploading, isAnalyzing, sessionId,
                   history, recordings, stopStage, running,
                   scoreVars, calVars, storeVars, analysisVars>>

\* the camera is back: setState('ready'); or not: setError
CameraReinitialized(ok) ==
    /\ HandlerMayRun
    /\ reRecording
    /\ reRecording' = FALSE
    /\ practiceState' = IF ok THEN "ready" ELSE practiceState
    /\ UNCHANGED <<recordedBlob, uploadResult, isUploading, isAnalyzing, sessionId,
                   history, recordings, stopStage, running,
                   scoreVars, calVars, storeVars, analysisVars>>

PracticeInit ==
    /\ CalInitVars
    /\ curPose = "base"
    /\ ScoreInitVars
    /\ context = [calibration |-> NoCalibration, comboMoveTypes |-> {"punch"}]
    /\ StoreInitVars
    /\ AnalysisInitVars
    /\ PracticeInitVars
    /\ maxVideos = 1

PracticeNext ==
    \/ handleStartCountdown
    \/ CountdownEnds
    \/ handlePauseRecording
    \/ handleResumeRecording
    \/ handleStopRecording
    \/ RecorderStopped
    \/ CelebrationEnds
    \/ AnalysisEffect
    \/ \E id \in running : AnalysisEnds(id)
    \/ handleUpload
    \/ \E ok \in BOOLEAN : UploadEnds(ok)
    \/ handleReRecord
    \/ \E ok \in BOOLEAN : CameraReinitialized(ok)

PracticeSpec == PracticeInit /\ [][PracticeNext]_vars

(***************************************************************************)
(* Properties of the scoring engine, checked under ScoreSpec.              *)
(***************************************************************************)
Scored == result # NoResult

FrameLandmarks == LandmarksArray(PoseFrames(frames))

UsesPose(id) == \E i \in 1..Len(frames) : frames[i].pose = id

\* C1: for every frame list, calibration and move-type set the overall score
\* generateScore returns lies in [0,100], and the four subscore maxima
\* (25, 20, 40, 15) sum to exactly 100.
C1_OverallInRange ==
    /\ GUARD_MAX = 25 /\ STABILITY_MAX = 20 /\ EXECUTION_MAX = 40 /\ TIMING_MAX = 15
    /\ GUARD_MAX + STABILITY_MAX + EXECUTION_MAX + TIMING_MAX = 100
    /\ Scored => result.score.overall \in 0..100

\* an attempt long enough for every subscore to be computed, scored near the top
C1_Witness ==
    /\ Scored
    /\ Len(frames) >= 5
    /\ result.score.overall >= 90

\* C2: every reported subscore stays in its range: guard in [0,25], stability
\* in [0,20], execution in [0,40], timing in [0,15].
C2_SubscoresInRange ==
    Scored =>
        /\ result.score.guard \in 0..25
        /\ result.score.stability \in 0..20
        /\ result.score.execution \in 0..40
        /\ result.score.timing \in 0..15

\* an attempt whose hip centre jumps so far that the stability clamp acts,
\* with the guard up throughout
C2_Witness ==
    /\ Scored
    /\ Len(frames) >= 5
    /\ result.score.stability = 0
    /\ result.score.guard = 25

\* C3: strengths, improvements and warnings have at most 3 entries each, and
\* strengths is never empty.
C3_FeedbackBounded ==
    Scored =>
        /\ Len(result.score.strengths) \in 1..3
        /\ Len(result.score.improvements) <= 3
        /\ Len(result.score.warnings) <= 3

\* four strengths qualify (guard, stability, execution, overall form) and
\* three are reported
C3_Witness ==
    /\ Scored
    /\ result.score.guard >= 20
    /\ result.score.stability >= 16
    /\ result.score.execution >= 32
    /\ result.score.overall > 70
    /\ Len(result.score.strengths) = 3

\* C8 as stated: for frames = [] generateScore returns frameCount 0, duration
\* 0, the default subscores and an overall score of approximately 65.
C8_EmptyOverallAbout65 ==
    (Scored /\ frames = <<>>) =>
        /\ result.frameCount = 0
        /\ result.duration = 0
        /\ result.score.stability = 10
        /\ result.score.execution = 20
        /\ result.score.timing = 8
        /\ result.score.overall \in 60..70

\* C8, amended: for frames = [] generateScore returns frameCount 0, duration
\* 0, guard 0, stability 10, execution 20, timing 8 and overall 38.
C8_EmptyOverall38 ==
    (Scored /\ frames = <<>>) =>
        /\ result.frameCount = 0
        /\ result.duration = 0
        /\ result.score.guard = 0
        /\ result.score.stability = 10
        /\ result.score.execution = 20
        /\ result.score.timing = 8
        /\ result.score.overall = 38

\* the empty list scored with a calibration and a two-move combo
C8_Witness ==
    /\ Scored
    /\ frames = <<>>
    /\ context.calibration # NoCalibration
    /\ context.comboMoveTypes = {"punch", "kick"}

\* C9: with fewer than 5 frames, whatever they contain and whatever the
\* move-type set, stability is 10, execution 20 and timing 8.
C9_UnderSampledDefaults ==
    (Scored /\ Len(frames) < 5) =>
        /\ result.score.stability = 10
        /\ result.score.execution = 20
        /\ result.score.timing = 8

\* four frames, one short of the minimum, with a punch and a jump to the side
C9_Witness ==
    /\ Scored
    /\ Len(frames) = 4
    /\ UsesPose("punch") \/ UsesPose("side")
    /\ "punch" \in context.comboMoveTypes

\* both wrists pass the guard-up test and are within the threshold of the
\* optimal height (5/100 above the nose)
BothWristsOptimal(landmarks, calibration) ==
    LET threshold == IF WearingGloves(calibration) THEN 15 ELSE 10
        optimalHeight == landmarks[NOSE].y - 5
        g == isGuardUp(landmarks, calibration)
    IN  /\ g.leftUp
        /\ g.rightUp
        /\ Abs(landmarks[LEFT_WRIST].y - optimalHeight) < threshold
        /\ Abs(landmarks[RIGHT_WRIST].y - optimalHeight) < threshold

\* C10: every frame with both wrists up at optimal height has Guard Detector
\* score 100, and an attempt whose sampled frames all do so gets guard
\* subscore 25.
C10_FullGuard ==
    /\ \A i \in 1..Len(frames) :
          BothWristsOptimal(FrameLandmarks[i], context.calibration)
              => isGuardUp(FrameLandmarks[i], context.calibration).score = 100
    /\ ( /\ Scored
         /\ frames # <<>>
         /\ \A i \in GuardSampleIndices(Len(frames)) :
               BothWristsOptimal(FrameLandmarks[i], context.calibration) )
       => result.score.guard = 25

\* a scored attempt of two different poses, both wrists up in every frame
C10_Witness ==
    /\ Scored
    /\ Len(frames) >= 5
    /\ UsesPose("base") /\ UsesPose("nudge")
    /\ \A i \in 1..Len(frames) :
          BothWristsOptimal(FrameLandmarks[i], context.calibration)

(***************************************************************************)
(* Properties of the calibration state machine, checked under Spec.        *)
(***************************************************************************)
\* this step is a tick that asks for step 'confirm'
BecomesConfirm == pend'.step = <<"confirm">> /\ pend.step # <<"confirm">>

\* this step is a tick of a callback that closed over step c and got landmarks
SampleTick(c) ==
    /\ rafQueue # <<>>
    /\ Head(rafQueue).clos = c
    /\ samples' = samples + 1

\* every sample of the buffer is the same shoulder width
ZeroVariance(buf) == buf # <<>> /\ \A i \in 1..Len(buf) : buf[i] = buf[1]

\* C4: in every interleaving of ticks, commits and effect re-subscriptions the
\* step becomes 'confirm' only on a tick whose rolling variance is below the
\* threshold and that comes at least 3000 ms after the tick that most recently
\* moved the step from 'detecting' to 'holding'.
C4_ConfirmOnlyAfterHold ==
    [][ BecomesConfirm =>
            /\ IsStable(stabilityBuffer')
            /\ holdBegan # <<>>
            /\ now' - holdBegan[1] >= HOLD_DURATION ]_vars

\* C5: a zero-variance shoulder-width sequence, one sample per tick, held for
\* exactly 3000 ms, takes the step detecting -> holding -> confirm, each
\* transition once, and the captured baselineScale is the mean of the sequence.
C5_ZeroVarianceRun ==
    [][ (mounted' /\ cycles' = 0 /\ ZeroVariance(stabilityBuffer')) =>
            /\ \/ step' = step
               \/ step = "detecting" /\ step' = "holding"
               \/ step = "holding" /\ step' = "confirm"
            /\ BecomesConfirm =>
                   /\ holdStartTime # <<>>
                   /\ now' - holdStartTime[1] >= HOLD_DURATION
            /\ ( /\ SampleTick("holding")
                 /\ holdStartTime # <<>>
                 /\ now' - holdStartTime[1] = HOLD_DURATION )
               => /\ pend'.step = <<"confirm">>
                  /\ pend'.captured # <<>>
                  /\ pend'.captured[1].baselineScale = RInt(stabilityBuffer'[1])
            /\ step' = "confirm" =>
                   captured'.baselineScale = RInt(stabilityBuffer'[1]) ]_vars

\* the first cycle confirmed on the tick exactly 3000 ms after the hold began
C5_Witness ==
    /\ mounted
    /\ cycles = 0
    /\ ZeroVariance(stabilityBuffer)
    /\ step = "confirm"
    /\ holdBegan # <<>>
    /\ now - holdBegan[1] = HOLD_DURATION
    /\ captured.baselineScale = RInt(stabilityBuffer[1])

\* C6: nothing is persisted and onComplete is not called by ticks, drops,
\* recalibrate or unmounting: only the confirm click, while the step is
\* 'confirm', saves the calibration, and it saves the committed capture.
C6_SaveOnlyOnConfirm ==
    [][ /\ (savedCalibration' # savedCalibration \/ completed' # completed) =>
               /\ mounted
               /\ step = "confirm"
               /\ completed'
               /\ savedCalibration'.baselineScale = captured.baselineScale
        /\ ~completed' => savedCalibration' = NoCalibration ]_vars

\* the confirm click saved a calibration captured after a recalibrate
C6_Witness ==
    /\ completed
    /\ ~mounted
    /\ cycles = 1
    /\ savedCalibration # NoCalibration

\* C7: recalibrate leaves step 'detecting', an empty buffer, no hold start and
\* hold progress 0, and the next confirm rests only on ticks after it: at
\* least 10 new samples and a hold begun after it and kept for 3000 ms.
C7_RecalibrateStartsAfresh ==
    [][ /\ cycles' = cycles + 1 =>
               /\ step' = "detecting"
               /\ stabilityBuffer' = <<>>
               /\ holdStartTime' = <<>>
               /\ holdProgress' = RInt(0)
        /\ (cycles >= 1 /\ BecomesConfirm) =>
               /\ samples' >= MIN_SAMPLES
               /\ holdBegan # <<>>
               /\ now' - holdBegan[1] >= HOLD_DURATION ]_vars

(***************************************************************************)
(* Properties of the scoring engine on longer attempts, checked under      *)
(* LongScoreSpec (C12 under ScoreSpec).                                    *)
(***************************************************************************)
\* the frames in which the punch-extension detector fires on either side
ExtensionFrames ==
    {i \in 1..Len(frames) :
        \/ detectPunchExtension(FrameLandmarks[i], "left")
        \/ detectPunchExtension(FrameLandmarks[i], "right")}

\* C11: with move types {punch} only and punch extension firing in exactly 30%
\* of the frames, the execution credit is 20 before the final scale (which
\* makes the execution subscore 40).
C11_Punch30Percent ==
    (frames # <<>> /\ 10 * Cardinality(ExtensionFrames) = 3 * Len(frames)) =>
        /\ PunchCredit(FrameLandmarks) = 20
        /\ (Scored /\ context.comboMoveTypes = {"punch"}) =>
               result.score.execution = EXECUTION_MAX

\* ten frames, three of them with an extended arm, scored for a punch combo
C11_Witness ==
    /\ Scored
    /\ Len(frames) = 10
    /\ Cardinality(ExtensionFrames) = 3
    /\ context.comboMoveTypes = {"punch"}

\* at least two frames, and no landmark moves between any two adjacent frames
AllStatic ==
    /\ Len(frames) >= 2
    /\ \A i \in 1..(Len(frames) - 1) :
          Movement(FrameLandmarks[i], FrameLandmarks[i + 1]) = 0

\* C12 as stated: an all-static frame sequence gets timing score 5.
C12_StaticTiming5 ==
    (Scored /\ AllStatic) => result.score.timing = 5

\* C12, amended: an all-static frame sequence of at least 5 frames gets timing
\* score 5 (a shorter one gets the default 8).
C12_StaticTiming5From5Frames ==
    (Scored /\ AllStatic) =>
        result.score.timing = (IF Len(frames) >= 5 THEN 5 ELSE 8)

\* a static attempt long enough for the timing bands to be applied
C12_Witness ==
    /\ Scored
    /\ AllStatic
    /\ Len(frames) >= 5
    /\ UsesPose("knee")

\* frame sequences to compare an attempt with: a still stance followed by a
\* sideways sway of the hips or a jump to the side
RunLandmarks(p, a, q, b) == LandmarksArray(PoseFrames(Run(p, a, 0) \o Run(q, b, a)))

CompareLists ==
    {RunLandmarks("base", a, q, b) : a \in {3, 7}, b \in {2, 7}, q \in {"sway", "side"}}

\* of each of them: the hip spread, the length, the stability and the
\* stability score
CompareStats ==
    {<<HipSpread(g), Len(g), calculateStability(g), calculateStabilityScore(g)>> :
        g \in CompareLists}

\* variance vf (= spread pf / nf^2) is at most variance vg (= pg / ng^2)
VarianceLe(pf, nf, pg, ng) == pf * ng * ng <= pg * nf * nf

\* of two sequences with spreads pf, pg, lengths nf, ng, stabilities sf, sg
\* and stability scores tf, tg, the one with the larger variance never has
\* the higher stability or stability score
Ordered(pf, nf, sf, tf, pg, ng, sg, tg) ==
    /\ VarianceLe(pf, nf, pg, ng) => RLe(sg, sf) /\ RLe(tg, tf)
    /\ VarianceLe(pg, ng, pf, nf) => RLe(sf, sg) /\ RLe(tf, tg)

StrictlyOrdered(pf, nf, sf, pg, ng, sg) ==
    /\ pf > 0
    /\ ~VarianceLe(pg, ng, pf, nf)
    /\ RLt(sg, sf)
    /\ RLt(RInt(0), sg)

MonotoneAgainstAll(f, pf, sf, tf) ==
    /\ RLe(RInt(0), sf) /\ RLe(sf, RInt(100))
    /\ RLe(RInt(0), tf) /\ RLe(tf, RInt(STABILITY_MAX))
    /\ \A g \in CompareStats :
          Ordered(pf, Len(f), sf, tf, g[1], g[2], g[3], g[4])

\* C13: the stability score is non-increasing in the hip-centre variance: of
\* two sequences of at least 5 frames the one with the larger variance never
\* gets the higher score; the score is within [0,100] before scaling to [0,20].
C13_StabilityMonotone ==
    Len(frames) >= 5 =>
        MonotoneAgainstAll(FrameLandmarks, HipSpread(FrameLandmarks),
                           calculateStability(FrameLandmarks),
                           calculateStabilityScore(FrameLandmarks))

SomeStrictlyBelow(f, pf, sf) ==
    \E g \in CompareStats :
        StrictlyOrdered(pf, Len(f), sf, g[1], g[2], g[3])

\* an attempt that sways, compared with one of strictly larger variance that
\* scores strictly lower and is not clamped
C13_Witness ==
    /\ Len(frames) >= 5
    /\ SomeStrictlyBelow(FrameLandmarks, HipSpread(FrameLandmarks),
                         calculateStability(FrameLandmarks))

\* the average Guard Detector score over the sampled frames, scaled by 25/100
SampledGuardAverage ==
    LET idx == GuardSampleIndices(Len(frames))
        ScoreAt(i) == isGuardUp(FrameLandmarks[i], context.calibration).score
    IN  Rat(SumSet(ScoreAt, idx) * 25, Cardinality(idx) * 100)

\* C20: for a non-empty list of n frames the guard subscore comes from at most
\* 20 evenly spaced frames (every step-th frame from index 0) and is the
\* average Guard Detector score over exactly those, scaled by 25/100.
C20_GuardSamplesAtMost20 ==
    frames # <<>> =>
        /\ Cardinality(GuardSampleIndices(Len(frames))) <= 20
        /\ \E stride \in 1..Len(frames) :
              GuardSampleIndices(Len(frames))
                  = {i \in 1..Len(frames) : (i - 1) % stride = 0}
        /\ Scored => result.score.guard = MathRound(SampledGuardAverage)

\* this step is a tick that got landmarks
AnySampleTick == rafQueue # <<>> /\ samples' = samples + 1

\* the committed step is 'confirm' and this step is not a click or an unmount
StaysInConfirmCycle == step = "confirm" /\ mounted' /\ cycles' = cycles

\* C15: once the step is 'confirm' it is terminal until recalibrate: no tick,
\* not even one scheduled before the confirming render took effect, changes
\* the step or the captured baselines and view angle, and a tick schedules no
\* further tick.
C15_ConfirmIsTerminal ==
    [][ StaysInConfirmCycle =>
            /\ step' = "confirm"
            /\ captured' = captured
            /\ AnySampleTick =>
                   /\ pend'.step = pend.step
                   /\ pend'.captured = pend.captured
                   /\ Len(rafQueue') < Len(rafQueue) ]_vars

\* this step asks for step 'holding'
BecomesHolding == pend'.step = <<"holding">> /\ pend.step # <<"holding">>

\* C16: the step is moved from 'detecting' to 'holding' only by a tick that got
\* landmarks and after which the buffer holds at least 10 samples with a
\* variance below the threshold; a tick that leaves fewer than 10 samples in
\* the buffer makes no transition of any kind.
C16_HoldingNeedsTenStable ==
    [][ /\ BecomesHolding =>
               /\ AnySampleTick
               /\ Head(rafQueue).clos = "detecting"
               /\ Len(stabilityBuffer') >= MIN_SAMPLES
               /\ IsStable(stabilityBuffer')
        /\ (step = "detecting" /\ step' = "holding") =>
               /\ Len(stabilityBuffer) >= MIN_SAMPLES
               /\ pend.step = <<"holding">>
        /\ (AnySampleTick /\ Len(stabilityBuffer') < MIN_SAMPLES) =>
               /\ pend' = pend
               /\ step' = step
               /\ holdStartTime' = holdStartTime ]_vars

\* the tenth sample of the first cycle asked for 'holding'
C16_Witness ==
    /\ cycles = 0
    /\ samples = MIN_SAMPLES
    /\ Len(stabilityBuffer) = MIN_SAMPLES
    /\ pend.step = <<"holding">>
    /\ step = "detecting"
    /\ holdStartTime = <<now>>

\* this step is a tick, during a hold younger than 3000 ms, after which the
\* rolling variance is not below the threshold
UnstableHoldingTick ==
    /\ AnySampleTick
    /\ step = "holding"
    /\ holdStartTime # <<>>
    /\ now' - holdStartTime[1] < HOLD_DURATION
    /\ Len(stabilityBuffer') >= MIN_SAMPLES
    /\ ~IsStable(stabilityBuffer')

\* C17: while holding, a tick whose rolling variance is not below the threshold
\* before 3000 ms have elapsed returns the step to 'detecting', clears the hold
\* start time and sets hold progress to 0, and a later confirm counts only
\* time of a hold begun after the drop.
C17_DropResetsHold ==
    [][ /\ UnstableHoldingTick =>
               /\ pend'.step = <<"detecting">>
               /\ pend'.holdProgress = <<RInt(0)>>
               /\ holdStartTime' = <<>>
        /\ BecomesConfirm =>
               /\ holdStartTime # <<>>
               /\ now' - holdStartTime[1] >= HOLD_DURATION ]_vars

\* this step is a tick of the running detection loop that got no landmarks:
\* time passes and no sample is taken
MissedTick ==
    /\ rafQueue # <<>>
    /\ mounted /\ videoReady
    /\ now' # now
    /\ samples' = samples

\* C18: a tick on which no landmarks are detected leaves the step, the
\* stability buffer and the hold start time unchanged: it neither resets nor
\* interrupts a hold in progress, whose elapsed time keeps accruing, so that
\* the first stable tick of the holding callback 3000 ms after the hold began
\* confirms whatever ticks were missed in between.
C18_MissedTickKeepsHold ==
    [][ /\ MissedTick =>
               /\ step' = step
               /\ pend' = pend
               /\ stabilityBuffer' = stabilityBuffer
               /\ holdStartTime' = holdStartTime
        /\ ( /\ SampleTick("holding")
             /\ holdStartTime # <<>>
             /\ now' - holdStartTime[1] >= HOLD_DURATION
             /\ IsStable(stabilityBuffer') )
           => pend'.step = <<"confirm">> ]_vars

\* the hold began on the tenth sample and time has passed since on ticks
\* without landmarks only
C18_Witness ==
    /\ mounted /\ videoReady
    /\ cycles = 0
    /\ samples = MIN_SAMPLES
    /\ Len(stabilityBuffer) = MIN_SAMPLES
    /\ holdStartTime # <<>>
    /\ now > holdStartTime[1]
    /\ step = "holding"

\* the last k elements of s (all of s if it has fewer)
MostRecent(s, k) == IF Len(s) <= k THEN s ELSE SubSeq(s, Len(s) - k + 1, Len(s))

\* this step captures the baselines
Captures == pend'.captured # <<>> /\ pend'.captured # pend.captured

\* C19: the stability buffer never holds more than 30 samples after a tick:
\* pushing a 31st sample evicts the oldest, so the variance that decides the
\* step and the captured baselineScale (the mean) are computed over the most
\* recent at most 30 shoulder-width samples.
C19_BufferAtMost30 ==
    [][ /\ BUFFER_MAX = 30
        /\ Len(stabilityBuffer') <= BUFFER_MAX
        /\ AnySampleTick =>
               /\ stabilityBuffer' =
                      MostRecent(Append(stabilityBuffer,
                                        getShoulderWidth(PoseOf(curPose))),
                                 BUFFER_MAX)
               /\ Len(stabilityBuffer) = BUFFER_MAX =>
                      /\ Len(stabilityBuffer') = BUFFER_MAX
                      /\ \A k \in 1..(BUFFER_MAX - 1) :
                             stabilityBuffer'[k] = stabilityBuffer[k + 1]
        /\ Captures =>
               /\ IsStable(stabilityBuffer')
               /\ pend'.captured[1].baselineScale =
                      Rat(SumSeq(stabilityBuffer'), Len(stabilityBuffer')) ]_vars

\* the first, wide sample was evicted by the 31st and the confirmed capture is
\* the mean of the 30 samples of the basic stance that remain
C19_Witness ==
    /\ cycles = 0
    /\ step = "confirm"
    /\ samples >= 2
    /\ Len(stabilityBuffer) = BUFFER_MAX
    /\ ZeroVariance(stabilityBuffer)
    /\ stabilityBuffer[1] = getShoulderWidth(BasePose)
    /\ captured.baselineScale = RInt(getShoulderWidth(BasePose))

(***************************************************************************)
(* Properties of the video storage, checked under StoreSpec.               *)
(***************************************************************************)
\* no request of a saveVideo call is outstanding
Quiescent == savePc \in {"idle", "resolved", "unsettled"}

\* C14: a saveVideo call that brings the store above the configured maximum
\* completes with the oldest videos deleted: whenever no request is
\* outstanding the call's promise is settled and at most the configured
\* maximum of videos remain.
C14_SaveKeepsAtMostMax ==
    Quiescent =>
        /\ savePc # "unsettled"
        /\ Cardinality(DOMAIN videos) <= getMaxVideos


(***************************************************************************)
(* Properties of the feedback lists and of the execution subscore.         *)
(***************************************************************************)
\* the four subscores before rounding
RawScores ==
    [guard |-> calculateGuardScore(FrameLandmarks, context.calibration),
     stability |-> calculateStabilityScore(FrameLandmarks),
     execution |-> calculateExecutionScore(FrameLandmarks, context.comboMoveTypes),
     timing |-> calculateTimingScore(FrameLandmarks, PoseFrames(frames))]

RawSum(sc) == RAdd(RAdd(sc.guard, sc.stability), RAdd(sc.execution, sc.timing))

\* the strengths of the axes that reached their high bar, in generation order
HighBars(sc) ==
    (IF RLe(RInt(20), sc.guard) THEN <<"feedback.strengths.goodGuard">> ELSE <<>>)
    \o (IF RLe(RInt(16), sc.stability) THEN <<"feedback.strengths.stableBase">> ELSE <<>>)
    \o (IF RLe(RInt(32), sc.execution) THEN <<"feedback.strengths.goodExtension">> ELSE <<>>)
    \o (IF RLe(RInt(12), sc.timing) THEN <<"feedback.strengths.goodTiming">> ELSE <<>>)

GoodFormGenerated(sc) == RLt(RInt(70), RawSum(sc)) \/ HighBars(sc) = <<>>

InSeq(x, q) == \E k \in 1..Len(q) : q[k] = x

StrengthsAsGenerated(sc, strengths) ==
    /\ strengths =
           SubSeq(HighBars(sc) \o (IF GoodFormGenerated(sc)
                                   THEN <<"feedback.strengths.goodForm">> ELSE <<>>),
                  1, Min(3, Len(HighBars(sc)) + (IF GoodFormGenerated(sc) THEN 1 ELSE 0)))
    /\ InSeq("feedback.strengths.goodForm", strengths)
           <=> (GoodFormGenerated(sc) /\ Len(HighBars(sc)) <= 2)

\* C21: the returned strengths are the first three of the keys generated, in
\* the order guard, stability, execution, timing, good form; good form is
\* generated when the four-subscore sum exceeds 70 or no axis reached its high
\* bar, and is returned exactly when it was generated and at most two axes
\* reached their high bar.
C21_StrengthsFirstThree ==
    Scored => StrengthsAsGenerated(RawScores, result.score.strengths)

\* three axes reached their high bar and the sum exceeds 70: good form was
\* generated and cut off
C21_Witness ==
    /\ Scored
    /\ Len(HighBars(RawScores)) >= 3
    /\ RLt(RInt(70), RawSum(RawScores))
    /\ ~InSeq("feedback.strengths.goodForm", result.score.strengths)

\* the improvements of the axes below their low bar, in generation order
LowBars(sc) ==
    (IF RLt(sc.guard, RInt(15)) THEN <<"feedback.improvements.raiseGuard">> ELSE <<>>)
    \o (IF RLt(sc.stability, RInt(10)) THEN <<"feedback.improvements.stayBalanced">> ELSE <<>>)
    \o (IF RLt(sc.execution, RInt(20)) THEN <<"feedback.improvements.extendMore">> ELSE <<>>)
    \o (IF RLt(sc.timing, RInt(8)) THEN <<"feedback.improvements.improveFlow">> ELSE <<>>)

ImprovementsAsClaimed(sc, improvements) ==
    /\ improvements = <<>> <=> (LowBars(sc) = <<>> /\ RLe(RInt(80), RawSum(sc)))
    /\ InSeq("feedback.improvements.returnFaster", improvements) =>
           /\ improvements = <<"feedback.improvements.returnFaster">>
           /\ LowBars(sc) = <<>>
    /\ LowBars(sc) # <<>> => improvements = SubSeq(LowBars(sc), 1, Min(3, Len(LowBars(sc))))

\* C22: the returned improvements are empty if and only if no axis is below
\* its low bar (15, 10, 20, 8) and the four-subscore sum is at least 80; the
\* default return-faster improvement appears only as the sole improvement,
\* never together with an axis improvement.
C22_ImprovementsEmptyIff ==
    Scored => ImprovementsAsClaimed(RawScores, result.score.improvements)

\* an attempt of at least 5 frames that was given no improvement at all
C22_Witness ==
    /\ Scored
    /\ Len(frames) >= 5
    /\ LowBars(RawScores) = <<>>
    /\ result.score.improvements = <<>>

\* the warnings the three conditions call for, in the order they are checked
WarningsOf(fs, calibration) ==
    (IF Len(fs) < 50 THEN <<"feedback.warnings.lowFrameCount">> ELSE <<>>)
    \o (IF /\ Len(fs) >= 1
           /\ checkFramingQuality(PoseOf(fs[Len(fs)].pose)).overallScore < 60
        THEN <<"feedback.warnings.poorFraming">> ELSE <<>>)
    \o (IF calibration # NoCalibration /\ calibration.viewAngle = "side"
        THEN <<"feedback.warnings.sidewaysView">> ELSE <<>>)

\* C23: the warnings contain the low-frame-count key iff the frame count is
\* below 50, the poor-framing key iff there is a frame and the final frame's
\* framing score is below 60, and the sideways-view key iff a calibration with
\* view angle side is supplied; in that order, none dropped by the truncation.
C23_WarningsExact ==
    Scored => result.score.warnings = WarningsOf(frames, context.calibration)

\* 50 frames or more, calibrated sideways, ending badly framed: two warnings
\* and no low-frame-count warning
C23_Witness ==
    /\ Scored
    /\ Len(frames) >= 50
    /\ result.score.warnings = <<"feedback.warnings.poorFraming",
                                 "feedback.warnings.sidewaysView">>

\* the frames in which a knee is lifted on either side
KneeLiftFrames ==
    {i \in 1..Len(frames) :
        \/ detectKneeLift(FrameLandmarks[i], "left")
        \/ detectKneeLift(FrameLandmarks[i], "right")}

\* the credit of a check in whose band k of n frames fall: 20 for a fraction
\* strictly between loNum/loDen and hiNum/hiDen, 10 for any other fraction
\* above minNum/minDen, else 0
BandCredit(k, n, loNum, loDen, hiNum, hiDen, minNum, minDen) ==
    IF loDen * k > loNum * n /\ hiDen * k < hiNum * n THEN 20
    ELSE IF minDen * k > minNum * n THEN 10
    ELSE 0

ExecutionOf(punch, legs, pe, kl, n) ==
    LET credits == (IF punch THEN BandCredit(pe, n, 1, 10, 1, 2, 1, 20) ELSE 0)
                   + (IF legs THEN BandCredit(kl, n, 1, 20, 2, 5, 1, 50) ELSE 0)
        checks == (IF punch THEN 1 ELSE 0) + (IF legs THEN 1 ELSE 0)
    IN  IF checks = 0 THEN RInt(25)
        ELSE RMin(RInt(40), Rat(40 * credits, 20 * checks))

ExecutionAsClaimed(expected) ==
    /\ calculateExecutionScore(FrameLandmarks, context.comboMoveTypes) = expected
    /\ Scored => result.score.execution = MathRound(expected)

Gloved == [wearingGloves |-> TRUE, viewAngle |-> "front"]

\* the detector's results for one frame with and without gloves
GuardPair(landmarks) ==
    <<isGuardUp(landmarks, Gloved), isGuardUp(landmarks, NoCalibration)>>

\* wrist positions around the borders of the guard region and of the two
\* optimal-height bands of the basic stance
WristSpots == {<<x, y>> : x \in {50, 79, 80}, y \in {0, 5, 6, 24, 25, 29, 30, 34, 60}}

GuardGrid ==
    {GuardPair(Put(Put(BasePose, LEFT_WRIST, l[1], l[2]), RIGHT_WRIST, r[1], r[2])) :
        l \in WristSpots, r \in WristSpots}

GuardPairAsClaimed(pair) ==
    /\ pair[1].score \in {0, 50, 60, 100}
    /\ pair[2].score \in {0, 50, 60, 100}
    /\ pair[1].leftUp = pair[2].leftUp /\ pair[1].rightUp = pair[2].rightUp
    /\ pair[1].score # pair[2].score => pair[1].leftUp # pair[1].rightUp
    /\ (pair[1].leftUp /\ pair[1].rightUp) =>
           pair[1].score = 100 /\ pair[2].score = 100

\* C30: the Guard Detector's per-frame score only takes the values 0, 50, 60
\* and 100, and the glove-adjusted height tolerance (0.15 with gloves, 0.10
\* without) changes a frame's score only when exactly one wrist is up; with
\* both wrists up the score is 100 with or without gloves.
C30_GuardScoreValues ==
    /\ \A i \in 1..Len(frames) :
           /\ GuardPairAsClaimed(GuardPair(FrameLandmarks[i]))
           /\ isGuardUp(FrameLandmarks[i], context.calibration).score
                  \in {0, 50, 60, 100}
    /\ \A pair \in GuardGrid : GuardPairAsClaimed(pair)

\* a frame with one wrist up, inside the optimal band only with gloves, and a
\* frame with both wrists up
C30_Witness ==
    /\ \E i \in 1..Len(frames) :
           /\ GuardPair(FrameLandmarks[i])[1].score = 60
           /\ GuardPair(FrameLandmarks[i])[2].score = 50
    /\ \E i \in 1..Len(frames) :
           /\ GuardPair(FrameLandmarks[i])[1].leftUp
           /\ GuardPair(FrameLandmarks[i])[1].rightUp

(***************************************************************************)
(* Properties of the feedback as a function of the reported scores.        *)
(***************************************************************************)
\* what the SessionScore of an attempt reports, with the frame count, the
\* final frame's framing score and the calibration's view angle
Reported(res, fs, calibration) ==
    <<res.score.guard, res.score.stability, res.score.execution,
      res.score.timing, res.frameCount,
      IF Len(fs) = 0 THEN -1
      ELSE checkFramingQuality(PoseOf(fs[Len(fs)].pose)).overallScore,
      ViewAngleOf(calibration)>>

FeedbackOf(res) ==
    <<res.score.strengths, res.score.improvements, res.score.warnings>>

Attempt(fs, ctx) ==
    LET res == generateScore(PoseFrames(fs), ctx)
    IN  [report |-> Reported(res, fs, ctx.calibration), feedback |-> FeedbackOf(res)]

\* attempts to compare the scored attempt with: five and six frames of the
\* punching pose, whose guard subscore is exactly 15 before rounding
ReferenceAttempts ==
    {Attempt(Run("punch", k, 0), [calibration |-> NoCalibration, comboMoveTypes |-> m]) :
        k \in {5, 6}, m \in MoveTypeSets}

TickDivisors(landmarks, buf) ==
    {getTorsoLength2(landmarks)}
        \cup (IF Len(buf) >= MIN_SAMPLES THEN {Len(buf)} ELSE {})

\* C25: every variance or ratio computation on the calibration path is
\* guarded against a zero divisor: no frame processed by processFrame, a frame
\* with a torso of length zero included, makes it divide by zero.
C25_NoZeroDivisor ==
    [][AnySampleTick => 0 \notin TickDivisors(PoseOf(curPose), stabilityBuffer')]_vars


(***************************************************************************)
(* Properties of the video analysis.                                       *)
(***************************************************************************)
StrictlyIncreasing(q) == \A i \in 1..(Len(q) - 1) : q[i] < q[i + 1]

\* C26: every timestamp passed to the shared pose landmarker's detectForVideo
\* is strictly greater than the previous timestamp passed to that instance,
\* over any sequence or interleaving of video analyses, a second analysis
\* after a first and two analyses running at once included.
C26_TimestampsIncrease == StrictlyIncreasing(detections)

ProgressInRange(q) == \A i \in 1..Len(q) : q[i] \in 0..100

NonDecreasing(q) == \A i \in 1..(Len(q) - 1) : q[i] <= q[i + 1]

\* C27: every value analyzeVideoBlob passes to its onProgress callback lies
\* in [0, 100] and the values never decrease, until the promise resolves.
C27_ProgressWithin100 ==
    \A a \in AnalysisIds :
        /\ ProgressInRange(analysis[a].progress)
        /\ NonDecreasing(analysis[a].progress)


(***************************************************************************)
(* Properties of the practice screen.                                      *)
(***************************************************************************)
EntriesFor(blob) == {i \in 1..Len(history) : history[i].video = blob}

\* C28: each time the practice state reaches 'complete' with a recorded blob,
\* exactly one history entry is created for that recording, also for the
\* recordings made after Re-record: once the effects of the render have run,
\* the history holds exactly one entry for the blob on the screen.
C28_OneEntryPerRecording ==
    (practiceState = "complete" /\ recordedBlob # 0 /\ ~EffectDue)
        => Cardinality(EntriesFor(recordedBlob)) = 1


=============================================================================
